---- MODULE Spec2Model ----
(***************************************************************************)
(* Model of the Rigol DG1022 driver (ivi/rigol/rigolDG1022.py) and of the  *)
(* generic command-driven base (ivi/simple.py): attribute accessors, the   *)
(* per-tag cache-validity store, and the command adapter.                  *)
(*                                                                         *)
(* Python values are modelled as strings ("1.0", "True", "None", "sine");  *)
(* Python strings are TLA+ strings handled with Len, SubSeq and \o.        *)
(***************************************************************************)
EXTENDS Integers, Sequences, FiniteSets, TLC

VARIABLES
    simulate,     \* self._driver_operation_simulate
    attrs,        \* the instance attributes holding cached values
    cache_valid,  \* self._cache_valid: dict from tag string to bool
    op,           \* the accessor call just made: name, index, value
    result,       \* how that call ended: returned value or raised error
    io,           \* the Transport calls that call issued, in order
    nops,         \* number of calls made in this session
    command,      \* CommandAdapter run: template handed to the adapter
    channel,      \* CommandAdapter run: channel index handed to the adapter
    adapted,      \* CommandAdapter run: outcome of the adapter
    response,     \* response adjustment run: raw response handed in
    adjusted      \* response adjustment run: what came out of it

vars == <<simulate, attrs, cache_valid, op, result, io, nops, command, channel, adapted, response, adjusted>>

(***************************************************************************)
(* Bounds.                                                                 *)
(***************************************************************************)
MaxOps == 2
MaxLen == 3
MaxSamples == 2
MaxSample == 2

(***************************************************************************)
(* Program constants.                                                      *)
(***************************************************************************)
OutputCount == 2

Channels == 0 .. (OutputCount - 1)

(***************************************************************************)
(* Python string primitives.                                               *)
(***************************************************************************)
CharAt(s, i) == SubSeq(s, i, i)

\* str.find for a one-character needle, 1-based; 0 when absent
Find(s, c) ==
    IF \E i \in 1 .. Len(s) : CharAt(s, i) = c
    THEN CHOOSE i \in 1 .. Len(s) :
            /\ CharAt(s, i) = c
            /\ \A j \in 1 .. (i - 1) : CharAt(s, j) # c
    ELSE 0

\* c in s
Contains(s, c) == Find(s, c) # 0

\* s.replace(c, rep, 1)
ReplaceFirst(s, c, rep) ==
    LET p == Find(s, c) IN
    IF p = 0 THEN s
    ELSE SubSeq(s, 1, p - 1) \o rep \o SubSeq(s, p + 1, Len(s))

\* s.split(c, 1) has a second element
HasSecond(s, c) == Contains(s, c)

\* s.split(c, 1)[1]
SplitSecond(s, c) == SubSeq(s, Find(s, c) + 1, Len(s))

StartsWith(s, p) == Len(s) >= Len(p) /\ SubSeq(s, 1, Len(p)) = p

Digits == <<"0", "1", "2", "3", "4", "5", "6", "7", "8", "9">>

IsDigit(c) == \E d \in 1 .. 10 : Digits[d] = c

DigitVal(c) == (CHOOSE d \in 1 .. 10 : Digits[d] = c) - 1

\* "%d" % n for the small naturals the driver formats
ToStr(n) == IF n < 10 THEN Digits[n + 1]
            ELSE Digits[(n \div 10) + 1] \o Digits[(n % 10) + 1]

\* "%d" % n for any natural
RECURSIVE Decimal(_)
Decimal(n) == IF n < 10 THEN Digits[n + 1]
              ELSE Decimal(n \div 10) \o Digits[(n % 10) + 1]

\* "%04d" % n: zero-padded to four digits, longer when n needs more
RECURSIVE ZeroPad(_, _)
ZeroPad(s, width) == IF Len(s) >= width THEN s ELSE ZeroPad("0" \o s, width)

\* str.lower on the letters the device uses
UpperCase == "ABCDEFGHIJKLMNOPQRSTUVWXYZ"

LowerCase == "abcdefghijklmnopqrstuvwxyz"

LowerChar(c) ==
    LET p == Find(UpperCase, c) IN
    IF p = 0 THEN c ELSE CharAt(LowerCase, p)

RECURSIVE Lower(_)
Lower(s) == IF Len(s) = 0 THEN ""
            ELSE LowerChar(CharAt(s, 1)) \o Lower(SubSeq(s, 2, Len(s)))

\* s.split(c): the list of the pieces between occurrences of c
RECURSIVE Split(_, _)
Split(s, c) ==
    LET p == Find(s, c) IN
    IF p = 0 THEN <<s>>
    ELSE <<SubSeq(s, 1, p - 1)>> \o Split(SubSeq(s, p + 1, Len(s)), c)

\* s.strip(c): leading and trailing occurrences of c removed
RECURSIVE Strip(_, _)
Strip(s, c) ==
    IF Len(s) > 0 /\ CharAt(s, 1) = c THEN Strip(SubSeq(s, 2, Len(s)), c)
    ELSE IF Len(s) > 0 /\ CharAt(s, Len(s)) = c THEN Strip(SubSeq(s, 1, Len(s) - 1), c)
    ELSE s

\* x in list
InList(x, l) == \E i \in 1 .. Len(l) : l[i] = x

\* int(s) succeeds (single decimal digit responses)
IntOK(s) == Len(s) = 1 /\ IsDigit(s)

IntOf(s) == DigitVal(s)

\* float(s) succeeds: "d" or "d.0"
FloatOK(s) ==
    \/ Len(s) = 1 /\ IsDigit(s)
    \/ Len(s) = 3 /\ IsDigit(CharAt(s, 1)) /\ SubSeq(s, 2, 3) = ".0"

\* repr of float(s)
FloatOf(s) == CharAt(s, 1) \o ".0"

\* "%e" % f for a float "d.0"
FormatE(f) == CharAt(f, 1) \o ".000000e+00"

\* bool(n) for an int n
BoolOfInt(n) == IF n # 0 THEN "True" ELSE "False"

\* "%d" % b for a bool
FormatBool(b) == IF b = "True" THEN "1" ELSE "0"

(***************************************************************************)
(* Outcomes of one accessor call.                                          *)
(***************************************************************************)
Ret(a, cv, i, v) == [attrs |-> a, cache |-> cv, io |-> i, kind |-> "return", value |-> v]

Raise(a, cv, i, e) == [attrs |-> a, cache |-> cv, io |-> i, kind |-> "raise", value |-> e]

\* a Transport call as logged: the command, whether the Transport completed it,
\* and the response it returned
AskCall(cmd, dev) == [call |-> "ask", cmd |-> cmd, ok |-> dev.ok, resp |-> dev.resp]

WriteCall(cmd, dev) == [call |-> "write", cmd |-> cmd, ok |-> dev.ok, resp |-> ""]

\* What the device side does with one Transport call: fail, or answer resp
Responses == {"2", "S 1"}

TransportFails == [ok |-> FALSE, resp |-> ""]

\* outcomes of a Transport.ask: a response, or the call raises
AskDevice == [ok : {TRUE}, resp : Responses] \cup {TransportFails}

\* outcomes of a Transport.write: done, or the call raises
WriteDevice == {[ok |-> TRUE, resp |-> ""], TransportFails}

\* a simulated session never reaches the device
DeviceFor(sim, outcomes) == IF sim THEN {[ok |-> TRUE, resp |-> ""]} ELSE outcomes

(***************************************************************************)
(* ivi.get_index: resolve a channel selector to an array index.            *)
(***************************************************************************)
IndexInputs == 0 .. OutputCount

get_index(i) ==
    IF i >= 0 /\ i < OutputCount
    THEN [ok |-> TRUE, index |-> i, error |-> ""]
    ELSE [ok |-> FALSE, index |-> i, error |-> "SelectorRangeException"]

(***************************************************************************)
(* ivi.Driver cache-validity store.  The tag of an entry is the explicit   *)
(* tag argument or, when the caller gives none, the name of the calling    *)
(* method; a leading "_get", "_set" and "_" are stripped.                  *)
(***************************************************************************)
_get_cache_tag(tag) ==
    LET t1 == IF StartsWith(tag, "_get") THEN SubSeq(tag, 5, Len(tag)) ELSE tag
        t2 == IF StartsWith(t1, "_set") THEN SubSeq(t1, 5, Len(t1)) ELSE t1
    IN  IF StartsWith(t2, "_") THEN SubSeq(t2, 2, Len(t2)) ELSE t2

CacheKey(tag, index) ==
    IF index >= 0 THEN _get_cache_tag(tag) \o "_" \o ToStr(index)
    ELSE _get_cache_tag(tag)

_get_cache_valid(cv, tag, index) ==
    LET k == CacheKey(tag, index) IN
    IF k \in DOMAIN cv THEN cv[k] ELSE FALSE

_set_cache_valid(cv, valid, tag, index) ==
    LET k == CacheKey(tag, index) IN
    [x \in (DOMAIN cv) \cup {k} |-> IF x = k THEN valid ELSE cv[x]]

\* as _get_command_modified_for_channel, with the first-channel test off by one
\* (index < 0): channel 0 is addressed as CH1
_get_command_modified_for_channel_strict(cmd, index) ==
    IF index < 0
    THEN [ok |-> TRUE, cmd |-> cmd, error |-> ""]
    ELSE LET channel_number == index + 1 IN
         IF Contains(cmd, "?")
         THEN [ok |-> TRUE,
               cmd |-> ReplaceFirst(cmd, "?", ":CH" \o ToStr(channel_number) \o "?"),
               error |-> ""]
         ELSE [ok |-> FALSE, cmd |-> cmd, error |-> "TypeError"]

\* s.replace(c, rep): every occurrence
RECURSIVE ReplaceEvery(_, _, _)
ReplaceEvery(s, c, rep) ==
    LET p == Find(s, c) IN
    IF p = 0 THEN s
    ELSE SubSeq(s, 1, p - 1) \o rep \o ReplaceEvery(SubSeq(s, p + 1, Len(s)), c, rep)

\* the adapter with the count argument of replace left out
_get_command_modified_for_channel_replace_all(cmd, index) ==
    IF index <= 0
    THEN [ok |-> TRUE, cmd |-> cmd, error |-> ""]
    ELSE LET channel_number == index + 1 IN
         IF Contains(cmd, "?")
         THEN [ok |-> TRUE,
               cmd |-> ReplaceEvery(cmd, "?", ":CH" \o ToStr(channel_number) \o "?"),
               error |-> ""]
         ELSE [ok |-> FALSE, cmd |-> cmd, error |-> "TypeError"]

(***************************************************************************)
(* rigolDG1022._get_command_modified_for_channel.                          *)
(* str + int raises TypeError in the append branch.                        *)
(***************************************************************************)
_get_command_modified_for_channel(cmd, index) ==
    IF index <= 0
    THEN [ok |-> TRUE, cmd |-> cmd, error |-> ""]
    ELSE LET channel_number == index + 1 IN
         IF Contains(cmd, "?")
         THEN [ok |-> TRUE,
               cmd |-> ReplaceFirst(cmd, "?", ":CH" \o ToStr(channel_number) \o "?"),
               error |-> ""]
         ELSE [ok |-> FALSE, cmd |-> cmd, error |-> "TypeError"]

(***************************************************************************)
(* State after construction: rigolDG1022.__init__ and _init_outputs, with  *)
(* the per-channel lists that fgen's _init_outputs creates.                *)
(***************************************************************************)
PerChannel(v) == [k \in Channels |-> v]

\* an attribute holding a single value, not a list: it cannot be indexed
Scalar(v) == [k \in {-1} |-> v]

\* type(x) is list, for the value x of an attribute
IsList(x) == DOMAIN x = Channels

InitAttrs ==
    [ _output_enabled                           |-> PerChannel("False"),
      _output_mode                              |-> PerChannel("function"),
      _output_reference_clock_source            |-> PerChannel(""),
      _output_operation_mode                    |-> PerChannel("continuous"),
      _output_standard_waveform_amplitude       |-> PerChannel("0.0"),
      _output_standard_waveform_dc_offset       |-> PerChannel("0.0"),
      _output_standard_waveform_duty_cycle_high |-> PerChannel("50.0"),
      _output_standard_waveform_start_phase     |-> PerChannel("0.0"),
      _output_standard_waveform_frequency       |-> PerChannel("0.0"),
      _output_standard_waveform_waveform        |-> PerChannel("sine"),
      _output_arbitrary_gain                    |-> PerChannel("0.0"),
      _output_arbitrary_offset                  |-> PerChannel("0.0"),
      _output_burst_count                       |-> PerChannel("1"),
      _output_arbitrary_waveform                |-> PerChannel(""),
      _arbitrary_sample_rate                    |-> Scalar("0"),
      _catalog_names                            |-> <<>>,
      _arbitrary_waveform_n                     |-> 0 ]

\* getattr(self, prop) succeeds
HasAttr(a, prop) == prop \in DOMAIN a

(***************************************************************************)
(* Allowed value sets and the values a caller passes.                      *)
(***************************************************************************)
StandardWaveformMapping ==
    [ sine |-> "sin", square |-> "squ", triangle |-> "ramp", ramp |-> "ramp",
      pulse |-> "pulse", noise |-> "noise", dc |-> "dc", user |-> "user" ]

OutputMode == {"function", "arbitrary", "sequence"}

SampleClockSource == {"internal", "external"}

FloatInputs == {"1.0", "2.0"}

BoolInputs == {"True", "False"}

ModeInputs == {"function", "arbitrary", "bogus"}

WaveformInputs == {"square", "bogus"}

ClockInputs == {"external", "bogus"}

OperationModeInputs == {"burst", "bogus"}

IntInputs == {"2"}

(***************************************************************************)
(* Hand-written accessors of rigolDG1022.                                  *)
(***************************************************************************)
_get_output_operation_mode(a, cv, sim, index0, dev) ==
    LET r == get_index(index0) IN
    IF ~r.ok THEN Raise(a, cv, <<>>, r.error)
    ELSE Ret(a, cv, <<>>, a["_output_operation_mode"][r.index])

\* the bare name OperationMode is not bound in the module: NameError
_set_output_operation_mode(a, cv, sim, index0, value, dev) ==
    LET r == get_index(index0) IN
    IF ~r.ok THEN Raise(a, cv, <<>>, r.error)
    ELSE Raise(a, cv, <<>>, "NameError")

_get_output_enabled(a, cv, sim, index0, dev) ==
    LET r == get_index(index0) IN
    IF ~r.ok THEN Raise(a, cv, <<>>, r.error)
    ELSE
    LET index == r.index IN
    IF ~sim /\ ~_get_cache_valid(cv, "_get_output_enabled", index)
    THEN LET io1 == <<AskCall(":output:ch" \o ToStr(index + 1) \o ":state?", dev)>> IN
         IF ~dev.ok THEN Raise(a, cv, io1, "TransportError")
         ELSE IF ~HasSecond(dev.resp, " ") THEN Raise(a, cv, io1, "IndexError")
         ELSE LET resp == SplitSecond(dev.resp, " ") IN
              IF ~IntOK(resp) THEN Raise(a, cv, io1, "ValueError")
              ELSE LET a1 == [a EXCEPT !["_output_standard_waveform_amplitude"][index] =
                                            BoolOfInt(IntOf(resp))]
                       cv1 == _set_cache_valid(cv, TRUE, "_get_output_enabled", index)
                   IN  Ret(a1, cv1, io1, a1["_output_enabled"][index])
    ELSE Ret(a, cv, <<>>, a["_output_enabled"][index])

_set_output_enabled(a, cv, sim, index0, value, dev) ==
    LET r == get_index(index0) IN
    IF ~r.ok THEN Raise(a, cv, <<>>, r.error)
    ELSE
    LET index == r.index
        io1 == IF ~sim
               THEN <<WriteCall(":output:ch" \o ToStr(index + 1) \o ":state " \o FormatBool(value), dev)>>
               ELSE <<>>
    IN  IF ~sim /\ ~dev.ok THEN Raise(a, cv, io1, "TransportError")
        ELSE LET a1 == [a EXCEPT !["_output_enabled"][index] = value]
                 cv1 == _set_cache_valid(cv, TRUE, "_set_output_enabled", index)
             IN  Ret(a1, cv1, io1, "None")

_get_output_mode(a, cv, sim, index0, dev) ==
    LET r == get_index(index0) IN
    IF ~r.ok THEN Raise(a, cv, <<>>, r.error)
    ELSE
    LET index == r.index IN
    IF ~sim /\ ~_get_cache_valid(cv, "_get_output_mode", index)
    THEN LET io1 == <<AskCall(":fg:state?", dev)>> IN
         IF ~dev.ok THEN Raise(a, cv, io1, "TransportError")
         ELSE IF ~HasSecond(dev.resp, " ") THEN Raise(a, cv, io1, "IndexError")
         ELSE LET resp == SplitSecond(dev.resp, " ") IN
              IF ~IntOK(resp) THEN Raise(a, cv, io1, "ValueError")
              ELSE LET a1 == [a EXCEPT !["_output_mode"][index] =
                                  IF IntOf(resp) # 0 THEN "function" ELSE "arbitrary"]
                       cv1 == _set_cache_valid(cv, TRUE, "_get_output_mode", index)
                   IN  Ret(a1, cv1, io1, a1["_output_mode"][index])
    ELSE Ret(a, cv, <<>>, a["_output_mode"][index])

\* for k in range(self._output_count): self._set_cache_valid(valid=False, index=k)
RECURSIVE InvalidateAll(_, _, _)
InvalidateAll(cv, tag, k) ==
    IF k >= OutputCount THEN cv
    ELSE InvalidateAll(_set_cache_valid(cv, FALSE, tag, k), tag, k + 1)

\* as _set_output_mode, without the loop that invalidates every channel
_set_output_mode_no_invalidate(a, cv, sim, index0, value, dev) ==
    LET r == get_index(index0) IN
    IF ~r.ok THEN Raise(a, cv, <<>>, r.error)
    ELSE
    LET index == r.index IN
    IF value \notin OutputMode THEN Raise(a, cv, <<>>, "ValueNotSupportedException")
    ELSE
    LET io1 == IF sim THEN <<>>
               ELSE IF value = "function" THEN <<WriteCall(":fg:state 1", dev)>>
               ELSE IF value = "arbitrary" THEN <<WriteCall(":fg:state 0", dev)>>
               ELSE <<>>
    IN  IF io1 # <<>> /\ ~dev.ok THEN Raise(a, cv, io1, "TransportError")
        ELSE LET a1 == [a EXCEPT !["_output_mode"][index] = value]
                 cv2 == _set_cache_valid(cv, TRUE, "_set_output_mode", index)
             IN  Ret(a1, cv2, io1, "None")

_set_output_mode(a, cv, sim, index0, value, dev) ==
    LET r == get_index(index0) IN
    IF ~r.ok THEN Raise(a, cv, <<>>, r.error)
    ELSE
    LET index == r.index IN
    IF value \notin OutputMode THEN Raise(a, cv, <<>>, "ValueNotSupportedException")
    ELSE
    LET io1 == IF sim THEN <<>>
               ELSE IF value = "function" THEN <<WriteCall(":fg:state 1", dev)>>
               ELSE IF value = "arbitrary" THEN <<WriteCall(":fg:state 0", dev)>>
               ELSE <<>>
    IN  IF io1 # <<>> /\ ~dev.ok THEN Raise(a, cv, io1, "TransportError")
        ELSE LET a1 == [a EXCEPT !["_output_mode"][index] = value]
                 cv1 == InvalidateAll(cv, "_set_output_mode", 0)
                 cv2 == _set_cache_valid(cv1, TRUE, "_set_output_mode", index)
             IN  Ret(a1, cv2, io1, "None")

_set_output_reference_clock_source(a, cv, sim, index0, value, dev) ==
    LET r == get_index(index0) IN
    IF ~r.ok THEN Raise(a, cv, <<>>, r.error)
    ELSE
    LET index == r.index IN
    IF value \notin SampleClockSource THEN Raise(a, cv, <<>>, "ValueNotSupportedException")
    ELSE
    LET io1 == IF sim THEN <<>> ELSE <<WriteCall(":clock:source " \o value, dev)>>
    IN  IF ~sim /\ ~dev.ok THEN Raise(a, cv, io1, "TransportError")
        ELSE LET a1 == [a EXCEPT !["_output_reference_clock_source"][index] = value]
                 cv1 == InvalidateAll(cv, "_set_output_reference_clock_source", 0)
                 cv2 == _set_cache_valid(cv1, TRUE, "_set_output_reference_clock_source", index)
             IN  Ret(a1, cv2, io1, "None")

(***************************************************************************)
(* Response parsers handed to the read paths.                              *)
(***************************************************************************)
\* lambda x : float(x)
ParseFloat(s) ==
    IF FloatOK(s) THEN [ok |-> TRUE, value |-> FloatOf(s), error |-> ""]
    ELSE [ok |-> FALSE, value |-> "", error |-> "ValueError"]

\* self._colon_delimited: the text after the first colon of the response
ParseColonDelimited(s) ==
    IF Contains(s, ":") THEN [ok |-> TRUE, value |-> SplitSecond(s, ":"), error |-> ""]
    ELSE [ok |-> TRUE, value |-> s, error |-> ""]

Parse(parser, s) ==
    IF parser = "float" THEN ParseFloat(s) ELSE ParseColonDelimited(s)

(***************************************************************************)
(* The shared standard-waveform read helper.  Its _get_cache_valid and     *)
(* _set_cache_valid calls carry no tag, so the entry they use is that of   *)
(* the helper itself, whatever prop is.                                    *)
(***************************************************************************)
\* as _get_output_standard_waveform_property, with the entry marked valid
\* before the query is made
_get_output_standard_waveform_property_eager(a, cv, sim, index0, prop, cmd, parser, dev) ==
    LET r == get_index(index0) IN
    IF ~r.ok THEN Raise(a, cv, <<>>, r.error)
    ELSE
    LET index == r.index IN
    IF ~sim /\ ~_get_cache_valid(cv, "_get_output_standard_waveform_property", index)
    THEN LET m == _get_command_modified_for_channel(cmd, index) IN
         IF ~m.ok THEN Raise(a, cv, <<>>, m.error)
         ELSE
         LET io1 == <<AskCall(m.cmd, dev)>>
             cv1 == _set_cache_valid(cv, TRUE, "_get_output_standard_waveform_property", index)
         IN
         IF ~dev.ok THEN Raise(a, cv1, io1, "TransportError")
         ELSE LET parsed == Parse(parser, dev.resp) IN
              IF ~parsed.ok THEN Raise(a, cv1, io1, parsed.error)
              ELSE IF ~HasAttr(a, prop) THEN Raise(a, cv1, io1, "AttributeError")
              ELSE LET a1 == [a EXCEPT ![prop][index] = parsed.value]
                   IN  Ret(a1, cv1, io1, a1[prop][index])
    ELSE IF ~HasAttr(a, prop) THEN Raise(a, cv, <<>>, "AttributeError")
         ELSE Ret(a, cv, <<>>, a[prop][index])

_get_output_standard_waveform_property(a, cv, sim, index0, prop, cmd, parser, dev) ==
    LET r == get_index(index0) IN
    IF ~r.ok THEN Raise(a, cv, <<>>, r.error)
    ELSE
    LET index == r.index IN
    IF ~sim /\ ~_get_cache_valid(cv, "_get_output_standard_waveform_property", index)
    THEN LET m == _get_command_modified_for_channel(cmd, index) IN
         IF ~m.ok THEN Raise(a, cv, <<>>, m.error)
         ELSE
         LET io1 == <<AskCall(m.cmd, dev)>> IN
         IF ~dev.ok THEN Raise(a, cv, io1, "TransportError")
         ELSE LET parsed == Parse(parser, dev.resp) IN
              IF ~parsed.ok THEN Raise(a, cv, io1, parsed.error)
              ELSE IF ~HasAttr(a, prop) THEN Raise(a, cv, io1, "AttributeError")
              ELSE LET a1 == [a EXCEPT ![prop][index] = parsed.value]
                       cv1 == _set_cache_valid(cv, TRUE, "_get_output_standard_waveform_property", index)
                   IN  Ret(a1, cv1, io1, a1[prop][index])
    ELSE IF ~HasAttr(a, prop) THEN Raise(a, cv, <<>>, "AttributeError")
         ELSE Ret(a, cv, <<>>, a[prop][index])

\* a caller that drops the helper's value: the method returns None
DropValue(out) == IF out.kind = "return" THEN [out EXCEPT !.value = "None"] ELSE out

_get_output_standard_waveform_dc_offset(a, cv, sim, index0, dev) ==
    _get_output_standard_waveform_property(a, cv, sim, index0,
        "_output_standard_waveform_dc_offset", "VOLT:OFF?", "float", dev)

\* as _set_output_standard_waveform_dc_offset, with the frequency setter's
\* invalidation of every channel copied in
_set_output_standard_waveform_dc_offset_all(a, cv, sim, index0, value, dev) ==
    LET r == get_index(index0) IN
    IF ~r.ok THEN Raise(a, cv, <<>>, r.error)
    ELSE
    LET index == r.index
        io1 == IF sim THEN <<>>
               ELSE <<WriteCall(":fg:ch" \o ToStr(index + 1) \o ":offset " \o FormatE(value), dev)>>
    IN  IF ~sim /\ ~dev.ok THEN Raise(a, cv, io1, "TransportError")
        ELSE LET a1 == [a EXCEPT !["_output_standard_waveform_dc_offset"][index] = value]
                 cv1 == InvalidateAll(cv, "_set_output_standard_waveform_dc_offset", 0)
                 cv2 == _set_cache_valid(cv1, TRUE, "_set_output_standard_waveform_dc_offset", index)
             IN  Ret(a1, cv2, io1, "None")

_set_output_standard_waveform_dc_offset(a, cv, sim, index0, value, dev) ==
    LET r == get_index(index0) IN
    IF ~r.ok THEN Raise(a, cv, <<>>, r.error)
    ELSE
    LET index == r.index
        io1 == IF sim THEN <<>>
               ELSE <<WriteCall(":fg:ch" \o ToStr(index + 1) \o ":offset " \o FormatE(value), dev)>>
    IN  IF ~sim /\ ~dev.ok THEN Raise(a, cv, io1, "TransportError")
        ELSE LET a1 == [a EXCEPT !["_output_standard_waveform_dc_offset"][index] = value]
                 cv1 == _set_cache_valid(cv, TRUE, "_set_output_standard_waveform_dc_offset", index)
             IN  Ret(a1, cv1, io1, "None")

_get_output_standard_waveform_duty_cycle_high(a, cv, sim, index0, dev) ==
    DropValue(_get_output_standard_waveform_property(a, cv, sim, index0,
        "_output_standard_waveform_duty_cycle_high", "FUNC:SQU:DCYC?", "float", dev))

_set_output_standard_waveform_duty_cycle_high(a, cv, sim, index0, value, dev) ==
    LET r == get_index(index0) IN
    IF ~r.ok THEN Raise(a, cv, <<>>, r.error)
    ELSE Ret([a EXCEPT !["_output_standard_waveform_duty_cycle_high"][r.index] = value],
             cv, <<>>, "None")

_get_output_standard_waveform_start_phase(a, cv, sim, index0, dev) ==
    DropValue(_get_output_standard_waveform_property(a, cv, sim, index0,
        "_output_standard_waveform_start_phase", "PHAS?", "float", dev))

_set_output_standard_waveform_start_phase(a, cv, sim, index0, value, dev) ==
    LET r == get_index(index0) IN
    IF ~r.ok THEN Raise(a, cv, <<>>, r.error)
    ELSE Ret([a EXCEPT !["_output_standard_waveform_start_phase"][r.index] = value],
             cv, <<>>, "None")

_get_output_standard_waveform_frequency(a, cv, sim, index0, dev) ==
    DropValue(_get_output_standard_waveform_property(a, cv, sim, index0,
        "_output_standard_waveform_frequency", "FREQ?", "float", dev))

_set_output_standard_waveform_frequency(a, cv, sim, index0, value, dev) ==
    LET r == get_index(index0) IN
    IF ~r.ok THEN Raise(a, cv, <<>>, r.error)
    ELSE
    LET index == r.index
        io1 == IF sim THEN <<>> ELSE <<WriteCall(":fg:frequency " \o FormatE(value), dev)>>
    IN  IF ~sim /\ ~dev.ok THEN Raise(a, cv, io1, "TransportError")
        ELSE LET a1 == [a EXCEPT !["_output_standard_waveform_frequency"][index] = value]
                 cv1 == InvalidateAll(cv, "_set_output_standard_waveform_frequency", 0)
                 cv2 == _set_cache_valid(cv1, TRUE, "_set_output_standard_waveform_frequency", index)
             IN  Ret(a1, cv2, io1, "None")

_get_output_standard_waveform_waveform(a, cv, sim, index0, dev) ==
    _get_output_standard_waveform_property(a, cv, sim, index0,
        "_output_standard_waveform_waveform", "FUNC?", "colon", dev)

_set_output_standard_waveform_waveform(a, cv, sim, index0, value, dev) ==
    LET r == get_index(index0) IN
    IF ~r.ok THEN Raise(a, cv, <<>>, r.error)
    ELSE
    LET index == r.index IN
    IF value \notin DOMAIN StandardWaveformMapping
    THEN Raise(a, cv, <<>>, "ValueNotSupportedException")
    ELSE
    LET io1 == IF sim THEN <<>>
               ELSE <<WriteCall(":fg:ch" \o ToStr(index + 1) \o ":shape " \o StandardWaveformMapping[value], dev)>>
    IN  IF ~sim /\ ~dev.ok THEN Raise(a, cv, io1, "TransportError")
        ELSE LET a1 == [a EXCEPT !["_output_standard_waveform_waveform"][index] = value]
                 cv1 == _set_cache_valid(cv, TRUE, "_set_output_standard_waveform_waveform", index)
             IN  Ret(a1, cv1, io1, "None")

_get_output_arbitrary_gain(a, cv, sim, index0, dev) ==
    _get_output_standard_waveform_property(a, cv, sim, index0,
        "_output_standard_waveform_gain", "VOLT?", "float", dev)

_set_output_arbitrary_gain(a, cv, sim, index0, value, dev) ==
    LET r == get_index(index0) IN
    IF ~r.ok THEN Raise(a, cv, <<>>, r.error)
    ELSE
    LET index == r.index
        io1 == IF sim THEN <<>>
               ELSE <<WriteCall(":ch" \o ToStr(index + 1) \o ":amplitude " \o FormatE(value), dev)>>
    IN  IF ~sim /\ ~dev.ok THEN Raise(a, cv, io1, "TransportError")
        ELSE LET a1 == [a EXCEPT !["_output_arbitrary_gain"][index] = value]
                 cv1 == _set_cache_valid(cv, TRUE, "_set_output_arbitrary_gain", index)
             IN  Ret(a1, cv1, io1, "None")

_get_output_arbitrary_offset(a, cv, sim, index0, dev) ==
    _get_output_standard_waveform_property(a, cv, sim, index0,
        "_output_standard_waveform_offset", "VOLT:OFF?", "float", dev)

_set_output_arbitrary_offset(a, cv, sim, index0, value, dev) ==
    LET r == get_index(index0) IN
    IF ~r.ok THEN Raise(a, cv, <<>>, r.error)
    ELSE
    LET index == r.index
        io1 == IF sim THEN <<>>
               ELSE <<WriteCall(":ch" \o ToStr(index + 1) \o ":offset " \o FormatE(value), dev)>>
    IN  IF ~sim /\ ~dev.ok THEN Raise(a, cv, io1, "TransportError")
        ELSE LET a1 == [a EXCEPT !["_output_arbitrary_offset"][index] = value]
                 cv1 == _set_cache_valid(cv, TRUE, "_set_output_arbitrary_offset", index)
             IN  Ret(a1, cv1, io1, "None")

_get_output_burst_count(a, cv, sim, index0, dev) ==
    LET r == get_index(index0) IN
    IF ~r.ok THEN Raise(a, cv, <<>>, r.error)
    ELSE Ret(a, cv, <<>>, a["_output_burst_count"][r.index])

_set_output_burst_count(a, cv, sim, index0, value, dev) ==
    LET r == get_index(index0) IN
    IF ~r.ok THEN Raise(a, cv, <<>>, r.error)
    ELSE Ret([a EXCEPT !["_output_burst_count"][r.index] = value], cv, <<>>, "None")

(***************************************************************************)
(* The generic engine: rigolDG1022._generate_scpi_methods, instantiated    *)
(* in __init__ for '_output_standard_waveform_amplitude' with get command  *)
(* "VOLT?", set command "VOLT", parser float and formatter str.            *)
(***************************************************************************)
_set_cached_property(a, cv, property_name, value, index) ==
    IF index # -1
    THEN [attrs |-> [a EXCEPT ![property_name][index] = value],
          cache |-> _set_cache_valid(cv, TRUE, property_name, index)]
    ELSE [attrs |-> [a EXCEPT ![property_name] = Scalar(value)],
          cache |-> _set_cache_valid(cv, TRUE, property_name, -1)]

\* a list as Python shows it: [v0, v1]
RECURSIVE JoinFrom(_, _)
JoinFrom(l, k) ==
    IF k = OutputCount - 1 THEN l[k] ELSE l[k] \o ", " \o JoinFrom(l, k + 1)

ListRepr(l) == "[" \o JoinFrom(l, 0) \o "]"

\* without an index the result is the attribute itself, list or not
_get_cached_property(a, property_name, index) ==
    IF index # -1 THEN a[property_name][index]
    ELSE IF IsList(a[property_name]) THEN ListRepr(a[property_name])
    ELSE a[property_name][-1]

\* as set_indexed_property, with the cache update applied whether or not the
\* write raised
set_indexed_property_unconditional(a, cv, sim, property_name, set_command, index0, value, dev) ==
    LET r == get_index(index0) IN
    IF ~r.ok THEN Raise(a, cv, <<>>, r.error)
    ELSE
    LET index == r.index
        m == _get_command_modified_for_channel(set_command, index)
    IN  IF ~m.ok THEN Raise(a, cv, <<>>, m.error)
        ELSE
        LET request == value
            io1 == IF sim THEN <<>> ELSE <<WriteCall(m.cmd \o " " \o request, dev)>>
            a1 == [a EXCEPT ![property_name][index] = value]
            cv1 == _set_cache_valid(cv, TRUE, property_name, index)
        IN  IF ~sim /\ ~dev.ok THEN Raise(a1, cv1, io1, "TransportError")
            ELSE Ret(a1, cv1, io1, "None")

\* with index -1 the index is not resolved and `command` is never bound:
\* a live session fails on reading it, a simulated one goes on to
\* getattr(self, property_name)[-1] = value
set_indexed_property(a, cv, sim, property_name, set_command, index0, value, dev) ==
    IF index0 = -1
    THEN IF ~sim THEN Raise(a, cv, <<>>, "UnboundLocalError")
         ELSE IF ~IsList(a[property_name]) THEN Raise(a, cv, <<>>, "TypeError")
         ELSE Ret([a EXCEPT ![property_name][OutputCount - 1] = value],
                  _set_cache_valid(cv, TRUE, property_name, -1), <<>>, "None")
    ELSE
    LET r == get_index(index0) IN
    IF ~r.ok THEN Raise(a, cv, <<>>, r.error)
    ELSE
    LET index == r.index
        m == _get_command_modified_for_channel(set_command, index)
    IN  IF ~m.ok THEN Raise(a, cv, <<>>, m.error)
        ELSE
        LET request == value
            io1 == IF sim THEN <<>> ELSE <<WriteCall(m.cmd \o " " \o request, dev)>>
        IN  IF ~sim /\ ~dev.ok THEN Raise(a, cv, io1, "TransportError")
            ELSE LET a1 == [a EXCEPT ![property_name][index] = value]
                     cv1 == _set_cache_valid(cv, TRUE, property_name, index)
                 IN  Ret(a1, cv1, io1, "None")

\* with index -1 the index is not resolved and `command` is never bound:
\* a read of the device fails on print(command), otherwise the attribute
\* itself is returned
get_indexed_property(a, cv, sim, property_name, get_command, parser, index0, dev) ==
    IF index0 = -1
    THEN IF ~sim /\ ~_get_cache_valid(cv, property_name, -1)
         THEN Raise(a, cv, <<>>, "UnboundLocalError")
         ELSE Ret(a, cv, <<>>, _get_cached_property(a, property_name, -1))
    ELSE
    LET r == get_index(index0) IN
    IF ~r.ok THEN Raise(a, cv, <<>>, r.error)
    ELSE
    LET index == r.index
        m == _get_command_modified_for_channel(get_command, index)
    IN  IF ~m.ok THEN Raise(a, cv, <<>>, m.error)
        ELSE
        IF ~sim /\ ~_get_cache_valid(cv, property_name, index)
        THEN LET io1 == <<AskCall(m.cmd, dev)>> IN
             IF ~dev.ok THEN Raise(a, cv, io1, "TransportError")
             ELSE LET parsed == Parse(parser, dev.resp) IN
                  IF ~parsed.ok THEN Raise(a, cv, io1, parsed.error)
                  ELSE LET s1 == _set_cached_property(a, cv, property_name, parsed.value, index)
                       IN  Ret(s1.attrs, s1.cache, io1,
                               _get_cached_property(s1.attrs, property_name, index))
        ELSE Ret(a, cv, <<>>, _get_cached_property(a, property_name, index))

_get_output_standard_waveform_amplitude(a, cv, sim, index0, dev) ==
    get_indexed_property(a, cv, sim, "_output_standard_waveform_amplitude", "VOLT?", "float", index0, dev)

_set_output_standard_waveform_amplitude(a, cv, sim, index0, value, dev) ==
    set_indexed_property(a, cv, sim, "_output_standard_waveform_amplitude", "VOLT", index0, value, dev)

\* the pair returned for indexed = False
set_simple_property(a, cv, sim, property_name, set_command, value, dev) ==
    set_indexed_property(a, cv, sim, property_name, set_command, -1, value, dev)

\* get_indexed_property(self, -1, value): no `value` is in scope
get_simple_property(a, cv, sim, property_name, get_command, parser, dev) ==
    Raise(a, cv, <<>>, "NameError")

\* self._set_output_standard_waveform_frequency(self, value): the driver
\* object arrives as the channel selector, which ivi.get_index cannot order
\* against 0
_set_arbitrary_sample_rate(a, cv, sim, value, dev) == Raise(a, cv, <<>>, "TypeError")

(***************************************************************************)
(* The session: one action per accessor call.                              *)
(***************************************************************************)
NoOp == [name |-> "", index |-> -1, value |-> ""]

NoResult == [kind |-> "", value |-> ""]

NotAdapted == [ok |-> FALSE, cmd |-> "", error |-> "not run"]

NotAdjusted == [done |-> FALSE, response |-> "", parsed |-> [ok |-> FALSE, value |-> "", error |-> ""]]

Init ==
    /\ simulate \in BOOLEAN
    /\ attrs = InitAttrs
    /\ cache_valid = [x \in {} |-> FALSE]
    /\ op = NoOp
    /\ result = NoResult
    /\ io = <<>>
    /\ nops = 0
    /\ command = ""
    /\ channel = 0
    /\ adapted = NotAdapted
    /\ response = ""
    /\ adjusted = NotAdjusted

\* one call of an accessor: `outs` holds, for every input and every device
\* behaviour, the call made and what the accessor did
Call(name, outs) ==
    /\ nops < MaxOps
    /\ \E o \in outs :
          /\ attrs' = o[3].attrs
          /\ cache_valid' = o[3].cache
          /\ io' = o[3].io
          /\ result' = [kind |-> o[3].kind, value |-> o[3].value]
          /\ op' = [name |-> name, index |-> o[1], value |-> o[2]]
    /\ nops' = nops + 1
    /\ UNCHANGED <<simulate, command, channel, adapted, response, adjusted>>

get_output_operation_mode ==
    Call("_get_output_operation_mode",
         { <<index, "", _get_output_operation_mode(attrs, cache_valid, simulate, index, dev)>> :
             index \in IndexInputs, dev \in DeviceFor(simulate, AskDevice) })

set_output_operation_mode ==
    Call("_set_output_operation_mode",
         { <<index, value, _set_output_operation_mode(attrs, cache_valid, simulate, index, value, dev)>> :
             index \in IndexInputs, value \in OperationModeInputs, dev \in DeviceFor(simulate, WriteDevice) })

get_output_enabled ==
    Call("_get_output_enabled",
         { <<index, "", _get_output_enabled(attrs, cache_valid, simulate, index, dev)>> :
             index \in IndexInputs, dev \in DeviceFor(simulate, AskDevice) })

set_output_enabled ==
    Call("_set_output_enabled",
         { <<index, value, _set_output_enabled(attrs, cache_valid, simulate, index, value, dev)>> :
             index \in IndexInputs, value \in BoolInputs, dev \in DeviceFor(simulate, WriteDevice) })

get_output_mode ==
    Call("_get_output_mode",
         { <<index, "", _get_output_mode(attrs, cache_valid, simulate, index, dev)>> :
             index \in IndexInputs, dev \in DeviceFor(simulate, AskDevice) })

set_output_mode ==
    Call("_set_output_mode",
         { <<index, value, _set_output_mode(attrs, cache_valid, simulate, index, value, dev)>> :
             index \in IndexInputs, value \in ModeInputs, dev \in DeviceFor(simulate, WriteDevice) })

set_output_reference_clock_source ==
    Call("_set_output_reference_clock_source",
         { <<index, value, _set_output_reference_clock_source(attrs, cache_valid, simulate, index, value, dev)>> :
             index \in IndexInputs, value \in ClockInputs, dev \in DeviceFor(simulate, WriteDevice) })

get_output_standard_waveform_amplitude ==
    Call("_get_output_standard_waveform_amplitude",
         { <<index, "", _get_output_standard_waveform_amplitude(attrs, cache_valid, simulate, index, dev)>> :
             index \in IndexInputs, dev \in DeviceFor(simulate, AskDevice) })

set_output_standard_waveform_amplitude ==
    Call("_set_output_standard_waveform_amplitude",
         { <<index, value, _set_output_standard_waveform_amplitude(attrs, cache_valid, simulate, index, value, dev)>> :
             index \in IndexInputs, value \in FloatInputs, dev \in DeviceFor(simulate, WriteDevice) })

get_output_standard_waveform_dc_offset ==
    Call("_get_output_standard_waveform_dc_offset",
         { <<index, "", _get_output_standard_waveform_dc_offset(attrs, cache_valid, simulate, index, dev)>> :
             index \in IndexInputs, dev \in DeviceFor(simulate, AskDevice) })

set_output_standard_waveform_dc_offset ==
    Call("_set_output_standard_waveform_dc_offset",
         { <<index, value, _set_output_standard_waveform_dc_offset(attrs, cache_valid, simulate, index, value, dev)>> :
             index \in IndexInputs, value \in FloatInputs, dev \in DeviceFor(simulate, WriteDevice) })

get_output_standard_waveform_duty_cycle_high ==
    Call("_get_output_standard_waveform_duty_cycle_high",
         { <<index, "", _get_output_standard_waveform_duty_cycle_high(attrs, cache_valid, simulate, index, dev)>> :
             index \in IndexInputs, dev \in DeviceFor(simulate, AskDevice) })

set_output_standard_waveform_duty_cycle_high ==
    Call("_set_output_standard_waveform_duty_cycle_high",
         { <<index, value, _set_output_standard_waveform_duty_cycle_high(attrs, cache_valid, simulate, index, value, dev)>> :
             index \in IndexInputs, value \in FloatInputs, dev \in DeviceFor(simulate, WriteDevice) })

get_output_standard_waveform_start_phase ==
    Call("_get_output_standard_waveform_start_phase",
         { <<index, "", _get_output_standard_waveform_start_phase(attrs, cache_valid, simulate, index, dev)>> :
             index \in IndexInputs, dev \in DeviceFor(simulate, AskDevice) })

set_output_standard_waveform_start_phase ==
    Call("_set_output_standard_waveform_start_phase",
         { <<index, value, _set_output_standard_waveform_start_phase(attrs, cache_valid, simulate, index, value, dev)>> :
             index \in IndexInputs, value \in FloatInputs, dev \in DeviceFor(simulate, WriteDevice) })

get_output_standard_waveform_frequency ==
    Call("_get_output_standard_waveform_frequency",
         { <<index, "", _get_output_standard_waveform_frequency(attrs, cache_valid, simulate, index, dev)>> :
             index \in IndexInputs, dev \in DeviceFor(simulate, AskDevice) })

set_output_standard_waveform_frequency ==
    Call("_set_output_standard_waveform_frequency",
         { <<index, value, _set_output_standard_waveform_frequency(attrs, cache_valid, simulate, index, value, dev)>> :
             index \in IndexInputs, value \in FloatInputs, dev \in DeviceFor(simulate, WriteDevice) })

get_output_standard_waveform_waveform ==
    Call("_get_output_standard_waveform_waveform",
         { <<index, "", _get_output_standard_waveform_waveform(attrs, cache_valid, simulate, index, dev)>> :
             index \in IndexInputs, dev \in DeviceFor(simulate, AskDevice) })

set_output_standard_waveform_waveform ==
    Call("_set_output_standard_waveform_waveform",
         { <<index, value, _set_output_standard_waveform_waveform(attrs, cache_valid, simulate, index, value, dev)>> :
             index \in IndexInputs, value \in WaveformInputs, dev \in DeviceFor(simulate, WriteDevice) })

get_output_arbitrary_gain ==
    Call("_get_output_arbitrary_gain",
         { <<index, "", _get_output_arbitrary_gain(attrs, cache_valid, simulate, index, dev)>> :
             index \in IndexInputs, dev \in DeviceFor(simulate, AskDevice) })

set_output_arbitrary_gain ==
    Call("_set_output_arbitrary_gain",
         { <<index, value, _set_output_arbitrary_gain(attrs, cache_valid, simulate, index, value, dev)>> :
             index \in IndexInputs, value \in FloatInputs, dev \in DeviceFor(simulate, WriteDevice) })

get_output_arbitrary_offset ==
    Call("_get_output_arbitrary_offset",
         { <<index, "", _get_output_arbitrary_offset(attrs, cache_valid, simulate, index, dev)>> :
             index \in IndexInputs, dev \in DeviceFor(simulate, AskDevice) })

set_output_arbitrary_offset ==
    Call("_set_output_arbitrary_offset",
         { <<index, value, _set_output_arbitrary_offset(attrs, cache_valid, simulate, index, value, dev)>> :
             index \in IndexInputs, value \in FloatInputs, dev \in DeviceFor(simulate, WriteDevice) })

get_output_burst_count ==
    Call("_get_output_burst_count",
         { <<index, "", _get_output_burst_count(attrs, cache_valid, simulate, index, dev)>> :
             index \in IndexInputs, dev \in DeviceFor(simulate, AskDevice) })

set_output_burst_count ==
    Call("_set_output_burst_count",
         { <<index, value, _set_output_burst_count(attrs, cache_valid, simulate, index, value, dev)>> :
             index \in IndexInputs, value \in IntInputs, dev \in DeviceFor(simulate, WriteDevice) })

Next ==
    \/ get_output_operation_mode
    \/ set_output_operation_mode
    \/ get_output_enabled
    \/ set_output_enabled
    \/ get_output_mode
    \/ set_output_mode
    \/ set_output_reference_clock_source
    \/ get_output_standard_waveform_amplitude
    \/ set_output_standard_waveform_amplitude
    \/ get_output_standard_waveform_dc_offset
    \/ set_output_standard_waveform_dc_offset
    \/ get_output_standard_waveform_duty_cycle_high
    \/ set_output_standard_waveform_duty_cycle_high
    \/ get_output_standard_waveform_start_phase
    \/ set_output_standard_waveform_start_phase
    \/ get_output_standard_waveform_frequency
    \/ set_output_standard_waveform_frequency
    \/ get_output_standard_waveform_waveform
    \/ set_output_standard_waveform_waveform
    \/ get_output_arbitrary_gain
    \/ set_output_arbitrary_gain
    \/ get_output_arbitrary_offset
    \/ set_output_arbitrary_offset
    \/ get_output_burst_count
    \/ set_output_burst_count

Spec == Init /\ [][Next]_vars

(***************************************************************************)
(* The command adapter on its own: a template and a resolved channel index *)
(* are handed to _get_command_modified_for_channel.                        *)
(***************************************************************************)
Alphabet == {"V", "?", ":"}

RECURSIVE Strings(_)
Strings(n) ==
    IF n = 0 THEN {""}
    ELSE LET shorter == Strings(n - 1) IN
         shorter \cup {t \o c : t \in shorter, c \in Alphabet}

\* every string over Alphabet of length at most MaxLen, and the templates the driver uses
Templates ==
    Strings(MaxLen) \cup {"VOLT", "VOLT?", "VOLT:OFF?", "FUNC:SQU:DCYC?", "PHAS?", "FREQ?", "FUNC?"}

InitAdapter ==
    /\ simulate = FALSE
    /\ attrs = InitAttrs
    /\ cache_valid = [x \in {} |-> FALSE]
    /\ op = NoOp
    /\ result = NoResult
    /\ io = <<>>
    /\ nops = 0
    /\ command \in Templates
    /\ channel \in Channels
    /\ adapted = NotAdapted
    /\ response = ""
    /\ adjusted = NotAdjusted

adapt_command ==
    /\ adapted = NotAdapted
    /\ adapted' = _get_command_modified_for_channel(command, channel)
    /\ UNCHANGED <<simulate, attrs, cache_valid, op, result, io, nops, command, channel, response, adjusted>>

NextAdapter == adapt_command

SpecAdapter == InitAdapter /\ [][NextAdapter]_vars

(***************************************************************************)
(* CommandDrivenDevice._adjust_response_for_channel (ivi/simple.py) and    *)
(* its use in the read path of the generic engine: the raw response is     *)
(* adjusted, then parsed.                                                  *)
(***************************************************************************)
\* the hook with the prefix of the channel stripped
_adjust_response_for_channel_strip(resp, chan) ==
    LET prefix == "CH" \o ToStr(chan + 1) \o ":" IN
    IF StartsWith(resp, prefix) THEN SubSeq(resp, Len(prefix) + 1, Len(resp)) ELSE resp

_adjust_response_for_channel(resp, chan) == resp

\* pieces a device answer is made of: channel echoes and values
ResponsePieces == {"CH1:", "CH2:", "2", ".0", "x"}

RECURSIVE Pieced(_)
Pieced(n) ==
    IF n = 0 THEN {""}
    ELSE LET shorter == Pieced(n - 1) IN
         shorter \cup {t \o c : t \in shorter, c \in ResponsePieces}

\* raw responses of at most MaxLen pieces
RawResponses == Pieced(MaxLen)

InitAdjust ==
    /\ simulate = FALSE
    /\ attrs = InitAttrs
    /\ cache_valid = [x \in {} |-> FALSE]
    /\ op = NoOp
    /\ result = NoResult
    /\ io = <<>>
    /\ nops = 0
    /\ command = ""
    /\ channel \in Channels
    /\ adapted = NotAdapted
    /\ response \in RawResponses
    /\ adjusted = NotAdjusted

\* get_indexed_property, from the answer of _ask to the parsed value
adjust_response ==
    /\ adjusted = NotAdjusted
    /\ LET r == _adjust_response_for_channel(response, channel) IN
       adjusted' = [done |-> TRUE, response |-> r, parsed |-> ParseFloat(r)]
    /\ UNCHANGED <<simulate, attrs, cache_valid, op, result, io, nops, command, channel, adapted, response>>

NextAdjust == adjust_response

SpecAdjust == InitAdjust /\ [][NextAdjust]_vars

(***************************************************************************)
(* The device catalog: rigolDG1022._load_catalog.                          *)
(***************************************************************************)
\* answers of the device to the directory query: an uppercase listing of
\* w0001.wfm, a listing of w0001.wfm and w0002.wfm, a listing without any
\* w*.wfm name, an empty listing, and an answer without the leading token
CatalogResponses ==
    { "CAT \"W0001.WFM\",WFM,8",
      "CAT \"w0001.wfm\",wfm,8,\"w0002.wfm\",wfm,16",
      "CAT \"sine.wfm\",wfm,8",
      "CAT ",
      "CAT" }

\* outcomes of the directory query: an answer, or the call raises
CatalogDevice == [ok : {TRUE}, resp : CatalogResponses] \cup {TransportFails}

\* [l[i:i+3] for i in range(0, len(l), 3)]
GroupsOfThree(l) ==
    [g \in 1 .. ((Len(l) + 2) \div 3) |->
        SubSeq(l, 3 * (g - 1) + 1, IF 3 * g <= Len(l) THEN 3 * g ELSE Len(l))]

\* the outcome of a load: the attributes afterwards, the Transport call made,
\* and the error raised if any
_load_catalog(a, sim, dev) ==
    LET cleared == [a EXCEPT !._catalog_names = <<>>] IN
    IF sim THEN [attrs |-> cleared, io |-> <<>>, ok |-> TRUE, error |-> ""]
    ELSE LET call == AskCall("DATA:CAT?", dev) IN
         IF ~dev.ok
         THEN [attrs |-> cleared, io |-> <<call>>, ok |-> FALSE, error |-> "TransportError"]
         ELSE LET lowered == Lower(dev.resp) IN
              IF ~HasSecond(lowered, " ")
              THEN [attrs |-> cleared, io |-> <<call>>, ok |-> FALSE, error |-> "IndexError"]
              ELSE LET raw      == SplitSecond(lowered, " ")
                       fields   == Split(raw, ",")
                       l        == [i \in 1 .. Len(fields) |-> Strip(fields[i], "\"")]
                       _catalog == GroupsOfThree(l)
                       names    == [i \in 1 .. Len(_catalog) |-> _catalog[i][1]]
                   IN [attrs |-> [cleared EXCEPT !._catalog_names = names],
                       io |-> <<call>>, ok |-> TRUE, error |-> ""]

(***************************************************************************)
(* Arbitrary waveform upload: rigolDG1022._arbitrary_waveform_create.      *)
(* A sample is a float; the model holds it as an integer number of         *)
(* 1/SampleDen, a power of two, so that every step of the quantization is  *)
(* exact in binary floating point as it is in the integers here.           *)
(***************************************************************************)
SampleDen == 4

_arbitrary_waveform_size_max == 262144
_arbitrary_waveform_size_min == 64
_arbitrary_waveform_quantum == 8

\* "w%04d.wfm" % n
HandleName(n) == "w" \o ZeroPad(Decimal(n), 4) \o ".wfm"

\* the search loop with the candidate formatted before the increment
RECURSIVE get_unused_handle_post_increment(_, _)
get_unused_handle_post_increment(n, names) ==
    IF ~InList(HandleName(n), names) THEN n + 1
    ELSE get_unused_handle_post_increment(n + 1, names)

\* the search loop accepting its first candidate whatever the catalog lists
get_unused_handle_unchecked(n, names) == n + 1

\* the search loop incrementing the counter twice in each pass
RECURSIVE get_unused_handle_double_step(_, _)
get_unused_handle_double_step(n, names) ==
    IF ~InList(HandleName(n + 2), names) THEN n + 2
    ELSE get_unused_handle_double_step(n + 2, names)

\* the search loop: the counter value on leaving it, whose name is the handle
RECURSIVE get_unused_handle(_, _)
get_unused_handle(n, names) ==
    IF ~InList(HandleName(n + 1), names) THEN n + 1
    ELSE get_unused_handle(n + 1, names)

\* if f > 1.0: f = 1.0; if f < -1.0: f = -1.0
Clip(f) == IF f > SampleDen THEN SampleDen
           ELSE IF f < -SampleDen THEN -SampleDen ELSE f

\* int(num / den): truncation toward zero
IntTrunc(num, den) == IF num >= 0 THEN num \div den ELSE -((-num) \div den)

\* the loop body without the + 0.5
quantize_truncating(f) ==
    IntTrunc((Clip(f) + SampleDen) * 4094, 2 * SampleDen) % 1048576

\* the loop body without the clip at -1.0
quantize_unclipped_below(f) ==
    LET c == IF f > SampleDen THEN SampleDen ELSE f IN
    IntTrunc((c + SampleDen) * 4094 + SampleDen, 2 * SampleDen) % 1048576

\* one pass of the loop body: int(((f + 1) / 2) * ((1 << 12) - 2) + 0.5) & 0x000fffff
\* with f = c / SampleDen this is int(((c + SampleDen) * 4094 + SampleDen) / (2 * SampleDen))
quantize(f) ==
    IntTrunc((Clip(f) + SampleDen) * 4094 + SampleDen, 2 * SampleDen) % 1048576

\* the codes of a sample sequence, in sample order
quantize_all(y) == [j \in 1 .. Len(y) |-> quantize(y[j])]

\* struct.pack('>H', i) accepts i
PackOK(i) == 0 <= i /\ i <= 65535

\* raw_data: struct.pack('>H', i) of every code, most significant byte first
raw_data(codes) ==
    [b \in 1 .. (2 * Len(codes)) |->
        IF b % 2 = 1 THEN codes[(b + 1) \div 2] \div 256 ELSE codes[b \div 2] % 256]

\* ivi.rms(diff(arange(0, len(y)) / 10e6)), formatted with %e
xincr == "1.000000e-07"

\* the preamble with the sample interval written ahead of the offset and scale
PreambleCommands_interval_first(handle) ==
    << ":data:destination \"" \o handle \o "\"",
       ":wfmpre:bit_nr 12",
       ":wfmpre:bn_fmt rp",
       ":wfmpre:byt_nr 2",
       ":wfmpre:byt_or msb",
       ":wfmpre:encdg bin",
       ":wfmpre:pt_fmt y",
       ":wfmpre:xincr " \o xincr,
       ":wfmpre:yzero 0",
       ":wfmpre:ymult 4.882812e-04" >>

\* the preamble writes, in the order the code issues them
PreambleCommands(handle) ==
    << ":data:destination \"" \o handle \o "\"",
       ":wfmpre:bit_nr 12",
       ":wfmpre:bn_fmt rp",
       ":wfmpre:byt_nr 2",
       ":wfmpre:byt_or msb",
       ":wfmpre:encdg bin",
       ":wfmpre:pt_fmt y",
       ":wfmpre:yzero 0",
       ":wfmpre:ymult 4.882812e-04",
       ":wfmpre:xincr " \o xincr >>

\* self._write_ieee_block(raw_data, ':curve ') as logged
BlockCall(data, ok) == [call |-> "write_ieee_block", cmd |-> ":curve ", ok |-> ok, resp |-> "", data |-> data]

\* which Transport write of a create the device fails: none (0), the k-th
\* preamble write, or the block transfer (the write after the last preamble)
NumPreamble == Len(PreambleCommands(""))

WriteFailures == 0 .. (NumPreamble + 1)

FailuresFor(sim) == IF sim THEN {0} ELSE WriteFailures

\* the writes of the preamble up to the first one that fails
PreambleIO(handle, fail_at) ==
    LET cmds == PreambleCommands(handle)
        last == IF fail_at \in 1 .. NumPreamble THEN fail_at ELSE NumPreamble
    IN [k \in 1 .. last |-> WriteCall(cmds[k], [ok |-> k # fail_at, resp |-> ""])]

\* the upload with the block transferred ahead of the preamble
upload_block_first(a, cv, io0, y, n, fail_at) ==
    LET handle == HandleName(n)
        codes  == quantize_all(y)
        blk    == io0 \o <<BlockCall(raw_data(codes), fail_at # NumPreamble + 1)>>
    IN IF \E j \in 1 .. Len(codes) : ~PackOK(codes[j]) THEN Raise(a, cv, io0, "struct.error")
       ELSE IF fail_at = NumPreamble + 1 THEN Raise(a, cv, blk, "TransportError")
       ELSE IF fail_at \in 1 .. NumPreamble
            THEN Raise(a, cv, blk \o PreambleIO(handle, fail_at), "TransportError")
       ELSE Ret(a, cv, blk \o PreambleIO(handle, fail_at), handle)

\* from the allocated handle on: preamble, quantization, block transfer
upload(a, cv, io0, y, n, fail_at) ==
    LET handle == HandleName(n)
        pre    == io0 \o PreambleIO(handle, fail_at)
        codes  == quantize_all(y)
    IN IF fail_at \in 1 .. NumPreamble THEN Raise(a, cv, pre, "TransportError")
       ELSE IF \E j \in 1 .. Len(codes) : ~PackOK(codes[j]) THEN Raise(a, cv, pre, "struct.error")
       ELSE IF fail_at = NumPreamble + 1
            THEN Raise(a, cv, pre \o <<BlockCall(raw_data(codes), FALSE)>>, "TransportError")
       ELSE Ret(a, cv, pre \o <<BlockCall(raw_data(codes), TRUE)>>, handle)

\* create with the length check made after the handle was allocated
_arbitrary_waveform_create_late_check(a, cv, sim, data, dev, fail_at) ==
    IF Len(data) = 0 THEN Raise(a, cv, <<>>, "IndexError")
    ELSE LET lc == _load_catalog(a, sim, dev) IN
         IF ~lc.ok THEN Raise(lc.attrs, cv, lc.io, lc.error)
         ELSE LET n  == get_unused_handle(lc.attrs._arbitrary_waveform_n, lc.attrs._catalog_names)
                  a1 == [lc.attrs EXCEPT !._arbitrary_waveform_n = n]
              IN IF Len(data) % _arbitrary_waveform_quantum # 0
                 THEN Raise(a1, cv, lc.io, "ValueNotSupportedException")
                 ELSE upload(a1, cv, lc.io, data, n, fail_at)

\* create with the counter put back when the upload fails
_arbitrary_waveform_create_rollback(a, cv, sim, data, dev, fail_at) ==
    IF Len(data) = 0 THEN Raise(a, cv, <<>>, "IndexError")
    ELSE IF Len(data) % _arbitrary_waveform_quantum # 0
    THEN Raise(a, cv, <<>>, "ValueNotSupportedException")
    ELSE LET lc == _load_catalog(a, sim, dev) IN
         IF ~lc.ok THEN Raise(lc.attrs, cv, lc.io, lc.error)
         ELSE LET n  == get_unused_handle(lc.attrs._arbitrary_waveform_n, lc.attrs._catalog_names)
                  a1 == [lc.attrs EXCEPT !._arbitrary_waveform_n = n]
                  o  == upload(a1, cv, lc.io, data, n, fail_at)
              IN IF o.kind = "raise" THEN [o EXCEPT !.attrs = lc.attrs] ELSE o

\* data is a list of floats: data[0] of an empty list raises IndexError
_arbitrary_waveform_create(a, cv, sim, data, dev, fail_at) ==
    IF Len(data) = 0 THEN Raise(a, cv, <<>>, "IndexError")
    ELSE IF Len(data) % _arbitrary_waveform_quantum # 0
    THEN Raise(a, cv, <<>>, "ValueNotSupportedException")
    ELSE LET lc == _load_catalog(a, sim, dev) IN
         IF ~lc.ok THEN Raise(lc.attrs, cv, lc.io, lc.error)
         ELSE LET n  == get_unused_handle(lc.attrs._arbitrary_waveform_n, lc.attrs._catalog_names)
                  a1 == [lc.attrs EXCEPT !._arbitrary_waveform_n = n]
              IN upload(a1, cv, lc.io, data, n, fail_at)

\* sample sequences handed to create: -1, -0.5, 0, 0.5, 1, 0.75, -0.75, 0
\* (one quantum), its first seven samples, two quanta, and the empty list
ExampleSamples == <<-4, -2, 0, 2, 4, 3, -3, 0>>

DataInputs == { <<>>, SubSeq(ExampleSamples, 1, 7), ExampleSamples, ExampleSamples \o ExampleSamples }

arbitrary_waveform_create ==
    Call("_arbitrary_waveform_create",
         { <<-1, data, _arbitrary_waveform_create(attrs, cache_valid, simulate, data, dev, fail_at)>> :
             data \in DataInputs,
             dev \in DeviceFor(simulate, CatalogDevice),
             fail_at \in FailuresFor(simulate) })

NextCreate == arbitrary_waveform_create

SpecCreate == Init /\ [][NextCreate]_vars

(***************************************************************************)
(* Create late in a session: the allocation counter is never reset, so a   *)
(* session that has made n allocations holds the counter at n or above.    *)
(* The sessions below start after no allocation and after 9999 of them.    *)
(***************************************************************************)
PriorAllocations == {0, 9999}

InitLongSession ==
    /\ simulate \in BOOLEAN
    /\ \E n \in PriorAllocations : attrs = [InitAttrs EXCEPT !._arbitrary_waveform_n = n]
    /\ cache_valid = [x \in {} |-> FALSE]
    /\ op = NoOp
    /\ result = NoResult
    /\ io = <<>>
    /\ nops = 0
    /\ command = ""
    /\ channel = 0
    /\ adapted = NotAdapted
    /\ response = ""
    /\ adjusted = NotAdjusted

SpecLongSession == InitLongSession /\ [][NextCreate]_vars

(***************************************************************************)
(* Assigning an arbitrary-waveform reference to a channel:                 *)
(* rigolDG1022._set_output_arbitrary_waveform.  dev is what the device     *)
(* does with the directory query, wdev what it does with the write.        *)
(***************************************************************************)
\* the setter with the value stored before it is validated
_set_output_arbitrary_waveform_store_first(a, cv, sim, index0, value0, dev, wdev) ==
    LET r == get_index(index0) IN
    IF ~r.ok THEN Raise(a, cv, <<>>, r.error)
    ELSE
    LET index  == r.index
        value  == Lower(value0)
        pieces == Split(value, ".")
        a0     == [a EXCEPT !._output_arbitrary_waveform[index] = value]
    IN  IF pieces[Len(pieces)] # "wfm" THEN Raise(a0, cv, <<>>, "ValueNotSupportedException")
        ELSE
        LET lc == _load_catalog(a0, sim, dev) IN
        IF ~lc.ok THEN Raise(lc.attrs, cv, lc.io, lc.error)
        ELSE IF ~InList(value, lc.attrs._catalog_names)
        THEN Raise(lc.attrs, cv, lc.io, "ValueNotSupportedException")
        ELSE
        LET io1 == IF sim THEN lc.io
                   ELSE lc.io \o <<WriteCall(":ch" \o ToStr(index + 1) \o ":waveform \"" \o value \o "\"", wdev)>>
        IN  IF ~sim /\ ~wdev.ok THEN Raise(lc.attrs, cv, io1, "TransportError")
            ELSE Ret(lc.attrs, cv, io1, "None")

_set_output_arbitrary_waveform(a, cv, sim, index0, value0, dev, wdev) ==
    LET r == get_index(index0) IN
    IF ~r.ok THEN Raise(a, cv, <<>>, r.error)
    ELSE
    LET index  == r.index
        value  == Lower(value0)
        pieces == Split(value, ".")
        ext    == pieces[Len(pieces)]
    IN  IF ext # "wfm" THEN Raise(a, cv, <<>>, "ValueNotSupportedException")
        ELSE
        LET lc == _load_catalog(a, sim, dev) IN
        IF ~lc.ok THEN Raise(lc.attrs, cv, lc.io, lc.error)
        ELSE IF ~InList(value, lc.attrs._catalog_names)
        THEN Raise(lc.attrs, cv, lc.io, "ValueNotSupportedException")
        ELSE
        LET io1 == IF sim THEN lc.io
                   ELSE lc.io \o <<WriteCall(":ch" \o ToStr(index + 1) \o ":waveform \"" \o value \o "\"", wdev)>>
        IN  IF ~sim /\ ~wdev.ok THEN Raise(lc.attrs, cv, io1, "TransportError")
            ELSE Ret([lc.attrs EXCEPT !._output_arbitrary_waveform[index] = value], cv, io1, "None")

\* handles given to the setter: one the device lists in upper case, one it
\* lists in some answers only, one it never lists, one with another
\* extension, and the bare word wfm
ReferenceInputs == {"W0001.WFM", "w0002.wfm", "w0003.wfm", "foo.bin", "wfm"}

set_output_arbitrary_waveform ==
    Call("_set_output_arbitrary_waveform",
         { <<index, value, _set_output_arbitrary_waveform(attrs, cache_valid, simulate, index, value, dev, wdev)>> :
             index \in IndexInputs,
             value \in ReferenceInputs,
             dev \in DeviceFor(simulate, CatalogDevice),
             wdev \in DeviceFor(simulate, WriteDevice) })

NextReference == set_output_arbitrary_waveform

SpecReference == Init /\ [][NextReference]_vars

(***************************************************************************)
(* Upload and assign in one call.  dev and fail_at are the device's        *)
(* behaviour during the upload, rdev and wdev its answers to the catalog   *)
(* reload and to the write of the assignment.                              *)
(***************************************************************************)
\* what the device does during one call: the block transfer fails; the
\* reload fails; the reload lists nothing; the reload lists w0001.wfm and
\* w0002.wfm and the assignment write fails, or is accepted; the directory
\* holds W0001.WFM already and lists both names after the upload
ChannelWaveformDevices ==
    LET ok(resp) == [ok |-> TRUE, resp |-> resp]
        none == "CAT "
        one  == "CAT \"W0001.WFM\",WFM,8"
        two  == "CAT \"w0001.wfm\",wfm,8,\"w0002.wfm\",wfm,16"
    IN { [dev |-> ok(none), fail_at |-> NumPreamble + 1, rdev |-> ok(none), wdev |-> ok("")],
         [dev |-> ok(none), fail_at |-> 0, rdev |-> TransportFails, wdev |-> ok("")],
         [dev |-> ok(none), fail_at |-> 0, rdev |-> ok(none), wdev |-> ok("")],
         [dev |-> ok(none), fail_at |-> 0, rdev |-> ok(two), wdev |-> TransportFails],
         [dev |-> ok(none), fail_at |-> 0, rdev |-> ok(two), wdev |-> ok("")],
         [dev |-> ok(one),  fail_at |-> 0, rdev |-> ok(two), wdev |-> ok("")] }

\* the handle assigned to the channel before it is uploaded
_arbitrary_waveform_create_channel_waveform_assign_first(a, cv, sim, index0, data, dev, fail_at, rdev, wdev) ==
    LET n  == get_unused_handle(a._arbitrary_waveform_n, a._catalog_names)
        s1 == _set_output_arbitrary_waveform(a, cv, sim, index0, HandleName(n), rdev, wdev)
    IN IF s1.kind = "raise" THEN s1
       ELSE LET c1 == _arbitrary_waveform_create(s1.attrs, s1.cache, sim, data, dev, fail_at)
            IN [c1 EXCEPT !.io = s1.io \o c1.io]

_arbitrary_waveform_create_channel_waveform(a, cv, sim, index0, data, dev, fail_at, rdev, wdev) ==
    LET c1 == _arbitrary_waveform_create(a, cv, sim, data, dev, fail_at) IN
    IF c1.kind = "raise" THEN c1
    ELSE LET handle == c1.value
             s1 == _set_output_arbitrary_waveform(c1.attrs, c1.cache, sim, index0, handle, rdev, wdev)
         IN IF s1.kind = "raise" THEN [s1 EXCEPT !.io = c1.io \o s1.io]
            ELSE Ret(s1.attrs, s1.cache, c1.io \o s1.io, handle)

arbitrary_waveform_create_channel_waveform ==
    Call("_arbitrary_waveform_create_channel_waveform",
         { <<index, data, _arbitrary_waveform_create_channel_waveform(attrs, cache_valid, simulate,
                index, data, d.dev, d.fail_at, d.rdev, d.wdev)>> :
             index \in IndexInputs,
             data \in {SubSeq(ExampleSamples, 1, 7), ExampleSamples},
             d \in IF simulate
                   THEN {[dev |-> x, fail_at |-> 0, rdev |-> x, wdev |-> x] : x \in DeviceFor(TRUE, {})}
                   ELSE ChannelWaveformDevices })

NextChannelWaveform == arbitrary_waveform_create_channel_waveform

SpecChannelWaveform == Init /\ [][NextChannelWaveform]_vars

(***************************************************************************)
(* The generic engine of simple.py (CommandDrivenDevice), mixed into a     *)
(* device that keeps the same attributes.  Its                             *)
(* _get_command_modified_for_channel returns the command unmodified and    *)
(* its _get_cached_property reads as the one above.                        *)
(***************************************************************************)
CommandDrivenDevice_set_cached_property(a, cv, property_name, value, index) ==
    IF index # -1
    THEN LET cache == IF HasAttr(a, property_name) THEN a[property_name]
                      ELSE [k \in 0 .. index |-> "None"]
             a1 == [x \in (DOMAIN a) \cup {property_name} |->
                       IF x = property_name THEN [cache EXCEPT ![index] = value] ELSE a[x]]
         IN [attrs |-> a1, cache |-> _set_cache_valid(cv, TRUE, property_name, index)]
    ELSE [attrs |-> [a EXCEPT ![property_name] = Scalar(value)],
          cache |-> _set_cache_valid(cv, TRUE, property_name, -1)]

CommandDrivenDevice_set_indexed_property(a, cv, sim, property_name, set_command, index0, value, dev) ==
    LET r == get_index(index0) IN
    IF index0 # -1 /\ ~r.ok THEN Raise(a, cv, <<>>, r.error)
    ELSE IF index0 = -1 /\ ~sim THEN Raise(a, cv, <<>>, "UnboundLocalError")
    ELSE
    LET io1 == IF sim THEN <<>> ELSE <<WriteCall(set_command \o " " \o value, dev)>>
    IN  IF ~sim /\ ~dev.ok THEN Raise(a, cv, io1, "TransportError")
        ELSE IF index0 # -1 /\ HasAttr(a, property_name) /\ ~IsList(a[property_name])
        THEN Raise(a, cv, io1, "TypeError")
        ELSE LET s1 == CommandDrivenDevice_set_cached_property(a, cv, property_name, value, index0)
             IN  Ret(s1.attrs, _set_cache_valid(s1.cache, TRUE, property_name, index0), io1, "None")

CommandDrivenDevice_get_indexed_property(a, cv, sim, property_name, get_command, parser, index0, dev) ==
    LET r == get_index(index0) IN
    IF index0 # -1 /\ ~r.ok THEN Raise(a, cv, <<>>, r.error)
    ELSE IF ~sim /\ ~_get_cache_valid(cv, property_name, index0)
    THEN IF index0 = -1 THEN Raise(a, cv, <<>>, "UnboundLocalError")
         ELSE LET io1 == <<AskCall(get_command, dev)>> IN
              IF ~dev.ok THEN Raise(a, cv, io1, "TransportError")
              ELSE LET parsed == Parse(parser, _adjust_response_for_channel(dev.resp, index0)) IN
                   IF ~parsed.ok THEN Raise(a, cv, io1, parsed.error)
                   ELSE IF ~IsList(a[property_name]) THEN Raise(a, cv, io1, "TypeError")
                   ELSE LET s1 == CommandDrivenDevice_set_cached_property(a, cv, property_name, parsed.value, index0)
                        IN  Ret(s1.attrs, s1.cache, io1,
                                _get_cached_property(s1.attrs, property_name, index0))
    ELSE IF index0 # -1 /\ ~IsList(a[property_name]) THEN Raise(a, cv, <<>>, "TypeError")
    ELSE Ret(a, cv, <<>>, _get_cached_property(a, property_name, index0))

\* self.set_indexed_property(-1, value): the device has no such attribute
CommandDrivenDevice_set_simple_property(a, cv, sim, property_name, set_command, value, dev) ==
    Raise(a, cv, <<>>, "AttributeError")

\* self.get_indexed_property(-1): the device has no such attribute
CommandDrivenDevice_get_simple_property(a, cv, sim, property_name, get_command, parser, dev) ==
    Raise(a, cv, <<>>, "AttributeError")

(***************************************************************************)
(* A session on the generated accessors alone: rigolDG1022's indexed pair  *)
(* for the amplitude (VOLT? / VOLT), CommandDrivenDevice's indexed pair    *)
(* for the DC offset (VOLT:OFFS? / VOLT:OFFS), a simple pair from either   *)
(* engine for the device-wide sample rate (:clock:frequency? /             *)
(* :clock:frequency), and the hand-written sample-rate setter.  -1 is the  *)
(* value the engine itself uses for "no channel".                          *)
(***************************************************************************)
EngineIndexInputs == IndexInputs \cup {-1}

rigol_set_indexed_property ==
    Call("rigol.set_indexed_property",
         { <<index, value, set_indexed_property(attrs, cache_valid, simulate,
                "_output_standard_waveform_amplitude", "VOLT", index, value, dev)>> :
             index \in EngineIndexInputs, value \in FloatInputs, dev \in DeviceFor(simulate, WriteDevice) })

rigol_get_indexed_property ==
    Call("rigol.get_indexed_property",
         { <<index, "", get_indexed_property(attrs, cache_valid, simulate,
                "_output_standard_waveform_amplitude", "VOLT?", "float", index, dev)>> :
             index \in EngineIndexInputs, dev \in DeviceFor(simulate, AskDevice) })

rigol_set_simple_property ==
    Call("rigol.set_simple_property",
         { <<-1, value, set_simple_property(attrs, cache_valid, simulate,
                "_arbitrary_sample_rate", ":clock:frequency", value, dev)>> :
             value \in FloatInputs, dev \in DeviceFor(simulate, WriteDevice) })

rigol_get_simple_property ==
    Call("rigol.get_simple_property",
         { <<-1, "", get_simple_property(attrs, cache_valid, simulate,
                "_arbitrary_sample_rate", ":clock:frequency?", "float", dev)>> :
             dev \in DeviceFor(simulate, AskDevice) })

simple_set_indexed_property ==
    Call("simple.set_indexed_property",
         { <<index, value, CommandDrivenDevice_set_indexed_property(attrs, cache_valid, simulate,
                "_output_standard_waveform_dc_offset", "VOLT:OFFS", index, value, dev)>> :
             index \in EngineIndexInputs, value \in FloatInputs, dev \in DeviceFor(simulate, WriteDevice) })

simple_get_indexed_property ==
    Call("simple.get_indexed_property",
         { <<index, "", CommandDrivenDevice_get_indexed_property(attrs, cache_valid, simulate,
                "_output_standard_waveform_dc_offset", "VOLT:OFFS?", "float", index, dev)>> :
             index \in EngineIndexInputs, dev \in DeviceFor(simulate, AskDevice) })

simple_set_simple_property ==
    Call("simple.set_simple_property",
         { <<-1, value, CommandDrivenDevice_set_simple_property(attrs, cache_valid, simulate,
                "_arbitrary_sample_rate", ":clock:frequency", value, dev)>> :
             value \in FloatInputs, dev \in DeviceFor(simulate, WriteDevice) })

simple_get_simple_property ==
    Call("simple.get_simple_property",
         { <<-1, "", CommandDrivenDevice_get_simple_property(attrs, cache_valid, simulate,
                "_arbitrary_sample_rate", ":clock:frequency?", "float", dev)>> :
             dev \in DeviceFor(simulate, AskDevice) })

set_arbitrary_sample_rate ==
    Call("_set_arbitrary_sample_rate",
         { <<-1, value, _set_arbitrary_sample_rate(attrs, cache_valid, simulate, value, dev)>> :
             value \in FloatInputs, dev \in DeviceFor(simulate, WriteDevice) })

NextEngine ==
    \/ rigol_set_indexed_property
    \/ rigol_get_indexed_property
    \/ rigol_set_simple_property
    \/ rigol_get_simple_property
    \/ simple_set_indexed_property
    \/ simple_get_indexed_property
    \/ simple_set_simple_property
    \/ simple_get_simple_property
    \/ set_arbitrary_sample_rate

SpecEngine == Init /\ [][NextEngine]_vars

(***************************************************************************)
(* The quantization loop of create on its own: sample sequences of at most *)
(* MaxSamples samples between -MaxSample and MaxSample, and the sequence   *)
(* of the worked example.                                                  *)
(***************************************************************************)
SampleValues == (-(MaxSample * SampleDen)) .. (MaxSample * SampleDen)

RECURSIVE SeqsUpTo(_)
SeqsUpTo(n) ==
    IF n = 0 THEN {<<>>}
    ELSE LET shorter == SeqsUpTo(n - 1) IN
         shorter \cup {Append(y, f) : y \in shorter, f \in SampleValues}

SampleSeqs == SeqsUpTo(MaxSamples) \cup {ExampleSamples}

InitQuantize == Init /\ ~simulate

\* for f in y: ... raw_data = raw_data + struct.pack('>H', i)
quantization_loop ==
    /\ nops = 0
    /\ \E y \in SampleSeqs :
          /\ op' = [name |-> "quantization loop", index |-> -1, value |-> y]
          /\ result' = [kind |-> "return",
                        value |-> [codes |-> quantize_all(y), raw_data |-> raw_data(quantize_all(y))]]
    /\ nops' = nops + 1
    /\ UNCHANGED <<simulate, attrs, cache_valid, io, command, channel, adapted, response, adjusted>>

NextQuantize == quantization_loop

SpecQuantize == InitQuantize /\ [][NextQuantize]_vars

(***************************************************************************)
(* The attributes the driver exposes per channel, and for each: its        *)
(* accessors, the instance attribute its setter stores to, and the methods *)
(* whose cache-validity entry its getter consults and its setter marks.    *)
(***************************************************************************)
GetterOf ==
    [ enabled          |-> "_get_output_enabled",
      mode             |-> "_get_output_mode",
      operation_mode   |-> "_get_output_operation_mode",
      amplitude        |-> "_get_output_standard_waveform_amplitude",
      dc_offset        |-> "_get_output_standard_waveform_dc_offset",
      duty_cycle_high  |-> "_get_output_standard_waveform_duty_cycle_high",
      start_phase      |-> "_get_output_standard_waveform_start_phase",
      frequency        |-> "_get_output_standard_waveform_frequency",
      waveform         |-> "_get_output_standard_waveform_waveform",
      arbitrary_gain   |-> "_get_output_arbitrary_gain",
      arbitrary_offset |-> "_get_output_arbitrary_offset",
      burst_count      |-> "_get_output_burst_count" ]

SetterOf ==
    [ enabled                |-> "_set_output_enabled",
      mode                   |-> "_set_output_mode",
      reference_clock_source |-> "_set_output_reference_clock_source",
      operation_mode         |-> "_set_output_operation_mode",
      amplitude              |-> "_set_output_standard_waveform_amplitude",
      dc_offset              |-> "_set_output_standard_waveform_dc_offset",
      duty_cycle_high        |-> "_set_output_standard_waveform_duty_cycle_high",
      start_phase            |-> "_set_output_standard_waveform_start_phase",
      frequency              |-> "_set_output_standard_waveform_frequency",
      waveform               |-> "_set_output_standard_waveform_waveform",
      arbitrary_gain         |-> "_set_output_arbitrary_gain",
      arbitrary_offset       |-> "_set_output_arbitrary_offset",
      burst_count            |-> "_set_output_burst_count" ]

FieldOf ==
    [ enabled                |-> "_output_enabled",
      mode                   |-> "_output_mode",
      reference_clock_source |-> "_output_reference_clock_source",
      operation_mode         |-> "_output_operation_mode",
      amplitude              |-> "_output_standard_waveform_amplitude",
      dc_offset              |-> "_output_standard_waveform_dc_offset",
      duty_cycle_high        |-> "_output_standard_waveform_duty_cycle_high",
      start_phase            |-> "_output_standard_waveform_start_phase",
      frequency              |-> "_output_standard_waveform_frequency",
      waveform               |-> "_output_standard_waveform_waveform",
      arbitrary_gain         |-> "_output_arbitrary_gain",
      arbitrary_offset       |-> "_output_arbitrary_offset",
      burst_count            |-> "_output_burst_count" ]

\* the caller (or explicit tag) under which the getter asks _get_cache_valid
GetTagOf ==
    [ enabled          |-> "_get_output_enabled",
      mode             |-> "_get_output_mode",
      amplitude        |-> "_output_standard_waveform_amplitude",
      dc_offset        |-> "_get_output_standard_waveform_property",
      duty_cycle_high  |-> "_get_output_standard_waveform_property",
      start_phase      |-> "_get_output_standard_waveform_property",
      frequency        |-> "_get_output_standard_waveform_property",
      waveform         |-> "_get_output_standard_waveform_property",
      arbitrary_gain   |-> "_get_output_standard_waveform_property",
      arbitrary_offset |-> "_get_output_standard_waveform_property" ]

\* the caller (or explicit tag) under which the setter calls _set_cache_valid
SetTagOf ==
    [ enabled                |-> "_set_output_enabled",
      mode                   |-> "_set_output_mode",
      reference_clock_source |-> "_set_output_reference_clock_source",
      amplitude              |-> "_output_standard_waveform_amplitude",
      dc_offset              |-> "_set_output_standard_waveform_dc_offset",
      frequency              |-> "_set_output_standard_waveform_frequency",
      waveform               |-> "_set_output_standard_waveform_waveform",
      arbitrary_gain         |-> "_set_output_arbitrary_gain",
      arbitrary_offset       |-> "_set_output_arbitrary_offset" ]

\* attributes whose getter reads the device when its entry is invalid
ReadableAttrs == DOMAIN GetTagOf

\* the parser each read path applies to the raw response
ParserOf ==
    [ enabled          |-> "state",
      mode             |-> "state",
      amplitude        |-> "float",
      dc_offset        |-> "float",
      duty_cycle_high  |-> "float",
      start_phase      |-> "float",
      frequency        |-> "float",
      waveform         |-> "colon",
      arbitrary_gain   |-> "float",
      arbitrary_offset |-> "float" ]

\* resp.split(' ', 1)[1] followed by int(): the read path of enabled and mode
StateOK(s) == HasSecond(s, " ") /\ IntOK(SplitSecond(s, " "))

ParseOKFor(A, s) ==
    IF ParserOf[A] = "state" THEN StateOK(s) ELSE Parse(ParserOf[A], s).ok

ParsedFor(A, s) ==
    IF A = "enabled" THEN BoolOfInt(IntOf(SplitSecond(s, " ")))
    ELSE IF A = "mode"
         THEN (IF IntOf(SplitSecond(s, " ")) # 0 THEN "function" ELSE "arbitrary")
    ELSE Parse(ParserOf[A], s).value

\* fgen.OperationMode
OperationMode == {"continuous", "burst"}

\* the values a setter accepts
AllowedOf(A) ==
    IF A = "mode" THEN OutputMode
    ELSE IF A = "waveform" THEN DOMAIN StandardWaveformMapping
    ELSE IF A = "reference_clock_source" THEN SampleClockSource
    ELSE IF A = "operation_mode" THEN OperationMode
    ELSE IF A = "enabled" THEN BoolInputs
    ELSE IF A = "burst_count" THEN IntInputs
    ELSE FloatInputs

\* validity of entry (A, c) as A's getter sees it, in cache cv
GetValid(cv, A, c) == _get_cache_valid(cv, GetTagOf[A], c)

\* validity of entry (A, c) as A's setter marks it, in cache cv
SetValid(cv, A, c) == _get_cache_valid(cv, SetTagOf[A], c)

IsGet(o, A) == A \in DOMAIN GetterOf /\ o.name = GetterOf[A] /\ o.index \in Channels

IsSet(o, A) == A \in DOMAIN SetterOf /\ o.name = SetterOf[A] /\ o.index \in Channels

Returned(r) == r.kind = "return"

Raised(r, e) == r.kind = "raise" /\ r.value = e

(***************************************************************************)
(* Claims.                                                                 *)
(***************************************************************************)

\* the attributes C1 lists
C1_Attrs ==
    { "frequency", "dc_offset", "duty_cycle_high", "start_phase", "waveform", "enabled",
      "mode", "arbitrary_gain", "arbitrary_offset", "burst_count", "amplitude" }

\* C1 (as stated): in a simulated session, a set of an allowed value v on a
\* channel, immediately followed by a get of the same attribute on the same
\* channel, returns exactly v.
C1_SetThenGetSimulated ==
    [][ \A A \in C1_Attrs :
          ( /\ simulate
            /\ IsSet(op, A)
            /\ op.value \in AllowedOf(A)
            /\ IsGet(op', A)
            /\ op'.index = op.index )
          => ( Returned(result') /\ result'.value = op.value ) ]_vars

\* C2 (as stated): in a live session, a get on an invalid entry to which the
\* device gives a well-formed answer issues one ask, returns the parsed answer,
\* and leaves the entry valid and holding that parsed value.
C2_LiveGetReadsDevice ==
    [][ \A A \in ReadableAttrs :
          ( /\ ~simulate
            /\ IsGet(op', A)
            /\ ~GetValid(cache_valid, A, op'.index) )
          => ( /\ Len(io') = 1
               /\ io'[1].call = "ask"
               /\ ( (io'[1].ok /\ ParseOKFor(A, io'[1].resp))
                    => ( /\ Returned(result')
                         /\ result'.value = ParsedFor(A, io'[1].resp)
                         /\ attrs'[FieldOf[A]][op'.index] = ParsedFor(A, io'[1].resp)
                         /\ GetValid(cache_valid', A, op'.index) ) ) ) ]_vars

\* C3 (as stated): in a live session, when a successful get or set of an
\* attribute on a channel has left its entry valid, the next get of that
\* attribute on that channel issues no Transport call and returns the cached
\* value.
C3_ValidEntryServedFromCache ==
    [][ \A A \in ReadableAttrs :
          ( /\ ~simulate
            /\ (IsGet(op, A) \/ IsSet(op, A))
            /\ Returned(result)
            /\ GetValid(cache_valid, A, op.index)
            /\ IsGet(op', A)
            /\ op'.index = op.index )
          => ( /\ io' = <<>>
               /\ Returned(result')
               /\ result'.value = attrs[FieldOf[A]][op.index] ) ]_vars

\* the attributes whose write acts on the whole device
DeviceWideAttrs == {"frequency", "mode", "reference_clock_source"}

PerChannelAttrs == {"dc_offset", "waveform", "arbitrary_gain", "arbitrary_offset", "enabled"}

\* C5: a set of a purely per-channel attribute on channel c leaves the cached
\* value and the validity of that attribute on every other channel unchanged.
C5_SetLeavesOtherChannels ==
    [][ \A A \in PerChannelAttrs :
          IsSet(op', A)
          => \A k \in Channels \ {op'.index} :
                /\ attrs'[FieldOf[A]][k] = attrs[FieldOf[A]][k]
                /\ SetValid(cache_valid', A, k) = SetValid(cache_valid, A, k)
                /\ GetValid(cache_valid', A, k) = GetValid(cache_valid, A, k) ]_vars

\* C5 witness: DC offset was written on channel 1 and then on channel 0 with
\* another value; channel 1 still holds its value and is still valid.
C5_Witness ==
    /\ IsSet(op, "dc_offset") /\ op.index = 0 /\ op.value = "2.0" /\ Returned(result)
    /\ attrs["_output_standard_waveform_dc_offset"][0] = "2.0"
    /\ attrs["_output_standard_waveform_dc_offset"][1] = "1.0"
    /\ SetValid(cache_valid, "dc_offset", 1)

\* the attributes whose setter writes to the device
WrittenAttrs == DOMAIN SetTagOf

\* a set whose Transport.write raised
WriteRaised(i) == Len(i) = 1 /\ i[1].call = "write" /\ ~i[1].ok

\* C6 (as stated): in a live session, when Transport.write raises during a
\* set, the entry is nevertheless updated to the value and marked valid.
C6_FailedWriteUpdatesCache ==
    [][ \A A \in WrittenAttrs :
          ( ~simulate /\ IsSet(op', A) /\ WriteRaised(io') )
          => ( /\ attrs'[FieldOf[A]][op'.index] = op'.value
               /\ SetValid(cache_valid', A, op'.index) ) ]_vars

\* C6 (amended): in a live session, when Transport.write raises during a set,
\* the error propagates to the caller and every cached value and validity flag
\* is left as it was.
C6_FailedWriteLeavesCache ==
    [][ \A A \in WrittenAttrs :
          ( ~simulate /\ IsSet(op', A) /\ WriteRaised(io') )
          => ( /\ Raised(result', "TransportError")
               /\ attrs' = attrs
               /\ cache_valid' = cache_valid ) ]_vars

\* C6 witness: a set on an entry that was valid with another value failed in
\* its write; the entry still holds the old value.
C6_Witness ==
    /\ ~simulate
    /\ IsSet(op, "amplitude") /\ op.index = 0 /\ op.value = "2.0"
    /\ WriteRaised(io)
    /\ Raised(result, "TransportError")
    /\ attrs["_output_standard_waveform_amplitude"][0] = "1.0"
    /\ SetValid(cache_valid, "amplitude", 0)

\* a get whose Transport.ask raised, or whose answer the parser rejects
ReadFailed(A, i) == Len(i) = 1 /\ i[1].call = "ask" /\ (~i[1].ok \/ ~ParseOKFor(A, i[1].resp))

\* C7: in a live session, when Transport.ask or the response parser fails
\* during a get on an invalid entry, the error propagates, the entry stays
\* invalid and no stored value changes.
C7_FailedReadLeavesEntryInvalid ==
    [][ \A A \in ReadableAttrs :
          ( /\ ~simulate
            /\ IsGet(op', A)
            /\ ~GetValid(cache_valid, A, op'.index)
            /\ ReadFailed(A, io') )
          => ( /\ result'.kind = "raise"
               /\ (~io'[1].ok => Raised(result', "TransportError"))
               /\ ~GetValid(cache_valid', A, op'.index)
               /\ attrs' = attrs
               /\ cache_valid' = cache_valid ) ]_vars

\* C7 witness: a get through the shared read helper whose answer the parser
\* rejected, after an earlier failed get of the same entry.
C7_Witness ==
    /\ ~simulate
    /\ nops = 2
    /\ IsGet(op, "dc_offset") /\ op.index = 1
    /\ Len(io) = 1 /\ io[1].ok /\ ~ParseOKFor("dc_offset", io[1].resp)
    /\ Raised(result, "ValueError")
    /\ ~GetValid(cache_valid, "dc_offset", 1)
    /\ attrs = InitAttrs

\* the attributes whose setter checks the value against an allowed set
CheckedAttrs == {"mode", "waveform", "reference_clock_source", "operation_mode"}

\* C8 (as stated): a set with a value outside the attribute's allowed set
\* fails with the unsupported-value error before any Transport call and leaves
\* every cached value and validity flag unchanged.
C8_UnsupportedValueRejected ==
    [][ \A A \in CheckedAttrs :
          ( IsSet(op', A) /\ op'.value \notin AllowedOf(A) )
          => ( /\ Raised(result', "ValueNotSupportedException")
               /\ io' = <<>>
               /\ attrs' = attrs
               /\ cache_valid' = cache_valid ) ]_vars

\* C9 (as stated): the entry of attribute A on channel c becomes valid only by
\* a read or a write of that same attribute on that same channel.
C9_ValidOnlyByOwnAccess ==
    [][ \A A \in ReadableAttrs : \A c \in Channels :
          ( ~GetValid(cache_valid, A, c) /\ GetValid(cache_valid', A, c) )
          => ( (IsGet(op', A) \/ IsSet(op', A)) /\ op'.index = c ) ]_vars

\* C10: for channel index 0 the adapter returns the template unchanged, query
\* or not.
C10_ChannelZeroUnchanged ==
    (adapted # NotAdapted /\ channel = 0) => (adapted.ok /\ adapted.cmd = command)

\* C10 witness: the adapter ran on a query template for channel 0.
C10_Witness ==
    /\ adapted # NotAdapted
    /\ channel = 0
    /\ command = "VOLT:OFF?"
    /\ adapted.cmd = "VOLT:OFF?"

\* C11: for a channel index n >= 1 and a template with a query marker, the
\* adapter returns the template with ":CH<n+1>" put right before the first
\* "?" and every other character, later "?" included, as it was; for channel
\* 1 the inserted text is ":CH2".
C11_QueryMarkerPrefixed ==
    (adapted # NotAdapted /\ channel >= 1 /\ Contains(command, "?"))
    => LET p == CHOOSE i \in 1 .. Len(command) :
                   /\ CharAt(command, i) = "?"
                   /\ \A j \in 1 .. (i - 1) : CharAt(command, j) # "?"
           ins == ":CH" \o ToStr(channel + 1)
       IN  /\ adapted.ok
           /\ Len(adapted.cmd) = Len(command) + Len(ins)
           /\ SubSeq(adapted.cmd, 1, p - 1) = SubSeq(command, 1, p - 1)
           /\ SubSeq(adapted.cmd, p, p + Len(ins) - 1) = ins
           /\ SubSeq(adapted.cmd, p + Len(ins), Len(adapted.cmd)) = SubSeq(command, p, Len(command))
           /\ (channel = 1 => SubSeq(adapted.cmd, p, p + 3) = ":CH2")

\* C11 witness: the adapter ran for channel 1 on a template with two query
\* markers and changed the first one only.
C11_Witness ==
    /\ adapted # NotAdapted
    /\ channel = 1
    /\ command = "V??"
    /\ adapted.cmd = "V:CH2??"

\* C12 (as stated): for a channel index n >= 1 and a template without a query
\* marker, the adapter returns the template with ":CH<n+1>" appended.
C12_NonQueryAppended ==
    (adapted # NotAdapted /\ channel >= 1 /\ ~Contains(command, "?"))
    => ( adapted.ok /\ adapted.cmd = command \o ":CH" \o ToStr(channel + 1) )

\* the wire prefix of a channel
WirePrefix(chan) == "CH" \o ToStr(chan + 1) \o ":"

\* C13 (as stated): the response adjustment strips exactly the leading wire
\* prefix "CH<n+1>:" of the given channel when the response begins with it,
\* and returns the response unchanged otherwise.
C13_PrefixStripped ==
    adjusted.done
    => IF StartsWith(response, WirePrefix(channel))
       THEN adjusted.response = SubSeq(response, Len(WirePrefix(channel)) + 1, Len(response))
       ELSE adjusted.response = response

\* C13 (amended): the response adjustment returns the response unchanged in
\* every case, a response that begins with the channel's prefix included, so
\* the read path parses the raw response as the device sent it.
C13_ResponseUnchanged ==
    adjusted.done
    => ( /\ adjusted.response = response
         /\ adjusted.parsed.ok <=> FloatOK(response)
         /\ StartsWith(response, WirePrefix(channel)) => ~adjusted.parsed.ok )

\* C13 witness: a response echoing channel 2 went through the adjustment for
\* channel index 1 and the parser then rejected it.
C13_Witness ==
    /\ adjusted.done
    /\ channel = 1
    /\ response = "CH2:2.0"
    /\ adjusted.response = "CH2:2.0"
    /\ adjusted.parsed.error = "ValueError"

\* a call of create
IsCreate(o) == o.name = "_arbitrary_waveform_create"

\* the call reached the block transfer
ReachedBlock(i) == \E k \in 1 .. Len(i) : i[k].call = "write_ieee_block"

\* the call issued a write, which create does only once it has its handle
Allocated(i) == \E k \in 1 .. Len(i) : i[k].call = "write"

\* C14: a handle returned by create is absent from the catalog as loaded
\* during that same call.
C14_HandleAbsentFromCatalog ==
    (IsCreate(op) /\ Returned(result))
    => ~InList(result.value, attrs._catalog_names)

\* C14 witness: the device listed W0001.WFM, which the load lowercased, and
\* the first create of a live session returned w0002.wfm.
C14_Witness ==
    /\ ~simulate /\ nops = 1
    /\ IsCreate(op) /\ Returned(result)
    /\ attrs._catalog_names = <<"w0001.wfm">>
    /\ io[1].resp = "CAT \"W0001.WFM\",WFM,8"
    /\ result.value = "w0002.wfm"

\* C15: across the creates of a session the allocation counter never
\* decreases; a create that got as far as allocating, whether it then returns
\* or fails in a preamble write or in the block transfer, leaves the counter
\* above its old value, and a returned handle carries the new counter value,
\* so successive handles have strictly increasing suffixes.
C15_CounterNeverReused ==
    [][ /\ attrs'._arbitrary_waveform_n >= attrs._arbitrary_waveform_n
        /\ (IsCreate(op') /\ (Allocated(io') \/ Returned(result')))
           => ( /\ attrs'._arbitrary_waveform_n > attrs._arbitrary_waveform_n
                /\ \E k \in 1 .. Len(io') :
                      io'[k].cmd = ":data:destination \"" \o HandleName(attrs'._arbitrary_waveform_n) \o "\"" )
        /\ (IsCreate(op') /\ Returned(result'))
           => result'.value = HandleName(attrs'._arbitrary_waveform_n) ]_vars

\* C15 witness: the second create of a live session failed in its block
\* transfer; the counter value it took stays consumed.
C15_Witness ==
    /\ ~simulate /\ nops = 2
    /\ IsCreate(op) /\ Raised(result, "TransportError")
    /\ ReachedBlock(io)
    /\ attrs._catalog_names = <<"sine.wfm">>
    /\ attrs._arbitrary_waveform_n = 2

\* a catalog without any w*.wfm name
NoWfmNames(names) ==
    \A i \in 1 .. Len(names) :
        ~(StartsWith(names[i], "w") /\ Len(names[i]) >= 4
          /\ SubSeq(names[i], Len(names[i]) - 3, Len(names[i])) = ".wfm")

\* C16: create returns the name w%04d.wfm of the smallest k above the counter
\* value at call time whose name the catalog does not list, and leaves the
\* counter at k; in a fresh session with no w*.wfm name in the catalog the
\* handle is w0001.wfm.
C16_SmallestFreeName ==
    [][ (IsCreate(op') /\ Returned(result'))
        => LET n     == attrs._arbitrary_waveform_n
               k     == attrs'._arbitrary_waveform_n
               names == attrs'._catalog_names
           IN /\ k > n
              /\ result'.value = "w" \o ZeroPad(Decimal(k), 4) \o ".wfm"
              /\ ~InList(result'.value, names)
              /\ \A j \in (n + 1) .. (k - 1) : InList("w" \o ZeroPad(Decimal(j), 4) \o ".wfm", names)
              /\ (n = 0 /\ NoWfmNames(names)) => result'.value = "w0001.wfm" ]_vars

\* C16 witness: with w0001.wfm and w0002.wfm listed, the first create of a
\* live session skipped both and returned w0003.wfm.
C16_Witness ==
    /\ ~simulate /\ nops = 1
    /\ IsCreate(op) /\ Returned(result)
    /\ attrs._catalog_names = <<"w0001.wfm", "w0002.wfm">>
    /\ attrs._arbitrary_waveform_n = 3
    /\ result.value = "w0003.wfm"

\* C17: create with a sample sequence whose length is not a multiple of the
\* quantum fails with the unsupported-value error before any Transport call
\* and leaves the allocation counter, and every other attribute, as it was.
C17_BadLengthRejectedBeforeIO ==
    [][ (IsCreate(op') /\ Len(op'.value) % 8 # 0)
        => ( /\ Raised(result', "ValueNotSupportedException")
             /\ io' = <<>>
             /\ attrs'._arbitrary_waveform_n = attrs._arbitrary_waveform_n
             /\ attrs' = attrs ) ]_vars

\* C17 witness: after a first create had taken counter value 1, a create
\* with seven samples was rejected.
C17_Witness ==
    /\ nops = 2
    /\ IsCreate(op) /\ Len(op.value) = 7
    /\ Raised(result, "ValueNotSupportedException")
    /\ io = <<>>
    /\ attrs._arbitrary_waveform_n = 1

\* C18 (as stated): a waveform for which create reaches the block transfer
\* has a sample count that is a positive multiple of the quantum within
\* [minSize, maxSize]; a count outside that range is rejected before any I/O.
C18_UploadedSizeInRange ==
    IsCreate(op)
    => LET count == Len(op.value) IN
       /\ ReachedBlock(io)
          => ( /\ count > 0
               /\ count % _arbitrary_waveform_quantum = 0
               /\ count >= _arbitrary_waveform_size_min
               /\ count <= _arbitrary_waveform_size_max )
       /\ (count < _arbitrary_waveform_size_min \/ count > _arbitrary_waveform_size_max)
          => (result.kind = "raise" /\ io = <<>>)

\* the quantization loop ran
IsQuantize(o) == o.name = "quantization loop"

\* C19: every emitted code is floor(((clamp(f, -1, 1) + 1) / 2) * 4094 + 0.5)
\* and lies in [0, 4094]: f <= -1 gives 0, f = 0 gives 2047, f >= 1 gives
\* 4094, and the samples -1, -0.5, 0, 0.5, 1, 0.75, -0.75, 0 give the codes
\* 0, 1024, 2047, 3071, 4094, 3582, 512, 2047, each sent high byte first.
C19_QuantizationCodes ==
    IsQuantize(op)
    => LET y     == op.value
           codes == result.value.codes
       IN /\ Len(codes) = Len(y)
          /\ \A j \in 1 .. Len(y) :
                LET f == y[j]
                    g == IF f > SampleDen THEN SampleDen ELSE IF f < -SampleDen THEN -SampleDen ELSE f
                    c == codes[j]
                IN /\ c \in 0 .. 4094
                   \* c <= ((g/D + 1)/2) * 4094 + 1/2 < c + 1, times 2D
                   /\ 2 * SampleDen * c <= (g + SampleDen) * 4094 + SampleDen
                   /\ (g + SampleDen) * 4094 + SampleDen < 2 * SampleDen * (c + 1)
                   /\ (f <= -SampleDen => c = 0)
                   /\ (f = 0 => c = 2047)
                   /\ (f >= SampleDen => c = 4094)
          /\ (y = <<-4, -2, 0, 2, 4, 3, -3, 0>>)
             => ( /\ codes = <<0, 1024, 2047, 3071, 4094, 3582, 512, 2047>>
                  /\ result.value.raw_data
                       = <<0, 0, 4, 0, 7, 255, 11, 255, 15, 254, 13, 254, 2, 0, 7, 255>> )

\* C19 witness: the loop ran on the eight samples of the worked example.
C19_Witness ==
    /\ IsQuantize(op)
    /\ op.value = <<-4, -2, 0, 2, 4, 3, -3, 0>>
    /\ result.value.codes[2] = 1024
    /\ result.value.codes[6] = 3582

\* C20: quantization is monotonic: of two samples, inside or outside
\* [-1, 1], the smaller never gets the larger code.
C20_QuantizationMonotonic ==
    IsQuantize(op)
    => \A j, k \in 1 .. Len(op.value) :
          op.value[j] <= op.value[k] => result.value.codes[j] <= result.value.codes[k]

\* C20 witness: the loop ran on -1.5 and 0.75, one sample below the range and
\* one inside it, and gave 0 and 3582.
C20_Witness ==
    /\ IsQuantize(op)
    /\ op.value = <<-6, 3>>
    /\ result.value.codes = <<0, 3582>>

\* a call of the reference setter with a channel that resolves
IsSetReference(o) == o.name = "_set_output_arbitrary_waveform" /\ o.index \in Channels

\* the handle, lowercased, ends in .wfm
HasWfmExtension(v) ==
    LET l == Lower(v) IN Len(l) >= 4 /\ SubSeq(l, Len(l) - 3, Len(l)) = ".wfm"

\* the directory query of the call was answered and parsed
CatalogLoaded(i) == Len(i) >= 1 /\ i[1].call = "ask" /\ i[1].ok /\ HasSecond(i[1].resp, " ")

\* C21 (as stated): assigning a reference fails without any Transport call
\* when the handle lacks the .wfm extension, whatever the catalog holds; with
\* the extension it fails when the handle is absent from the catalog reloaded
\* in the same call and succeeds otherwise.
C21_ReferenceValidated ==
    IsSetReference(op)
    => /\ ~HasWfmExtension(op.value)
          => (Raised(result, "ValueNotSupportedException") /\ io = <<>>)
       /\ (HasWfmExtension(op.value) /\ (simulate \/ CatalogLoaded(io)))
          => IF InList(Lower(op.value), attrs._catalog_names)
             THEN (Len(io) = 2 /\ io[2].ok) => Returned(result)
             ELSE Raised(result, "ValueNotSupportedException")

\* C22: when a reference is assigned to channel c, a write is issued only
\* after the catalog was reloaded and the handle found in it; when validation
\* fails no write is issued and the cached reference of every channel is as
\* before; the cached reference changes only on channel c, only to the
\* validated handle, and only in a call that returned.
C22_ValidateBeforeWriteAndStore ==
    [][ IsSetReference(op')
        => LET wrote  == \E k \in 1 .. Len(io') : io'[k].call = "write"
               before == attrs._output_arbitrary_waveform
               after  == attrs'._output_arbitrary_waveform
           IN /\ wrote => ( /\ Len(io') = 2 /\ io'[1].call = "ask" /\ io'[1].ok /\ io'[2].call = "write"
                            /\ InList(Lower(op'.value), attrs'._catalog_names) )
              /\ Raised(result', "ValueNotSupportedException") => (~wrote /\ after = before)
              /\ after # before
                 => ( /\ Returned(result')
                      /\ InList(Lower(op'.value), attrs'._catalog_names)
                      /\ after = [before EXCEPT ![op'.index] = Lower(op'.value)] ) ]_vars

\* C22 witness: channel 1 holds w0002.wfm from an earlier call; assigning
\* w0003.wfm, which the device does not list, to channel 1 was refused after
\* the reload and wrote nothing.
C22_Witness ==
    /\ ~simulate /\ nops = 2
    /\ IsSetReference(op) /\ op.index = 1 /\ op.value = "w0003.wfm"
    /\ Raised(result, "ValueNotSupportedException")
    /\ Len(io) = 1 /\ io[1].call = "ask"
    /\ attrs._output_arbitrary_waveform[1] = "w0002.wfm"

\* the commands of the Transport writes of a call, in the order issued
WriteCmds(i) ==
    LET w == SelectSeq(i, LAMBDA c : c.call = "write")
    IN [k \in 1 .. Len(w) |-> w[k].cmd]

\* the place of the first write whose command starts with a directive, 0 if none
PlaceOf(cmds, directive) ==
    IF \E k \in 1 .. Len(cmds) : StartsWith(cmds[k], directive)
    THEN CHOOSE k \in 1 .. Len(cmds) :
            /\ StartsWith(cmds[k], directive)
            /\ \A j \in 1 .. (k - 1) : ~StartsWith(cmds[j], directive)
    ELSE 0

\* C23 (as stated): a successful create writes the destination directive
\* first and the sample-interval directive before the offset and scale
\* directives.
C23_IntervalBeforeOffsetScale ==
    (IsCreate(op) /\ Returned(result))
    => LET w == WriteCmds(io) IN
       /\ PlaceOf(w, ":data:destination") = 1
       /\ PlaceOf(w, ":wfmpre:xincr") > 0
       /\ PlaceOf(w, ":wfmpre:xincr") < PlaceOf(w, ":wfmpre:yzero")
       /\ PlaceOf(w, ":wfmpre:xincr") < PlaceOf(w, ":wfmpre:ymult")

\* C23 (amended): the writes of a create that allocated a handle are, in
\* order, a beginning of: destination handle, 12-bit depth, binary format,
\* 2 bytes per sample, most significant byte first, binary encoding, point
\* format y, zero offset, scale 2/4096, sample interval; a successful create
\* issues all ten, so the destination is written first and the sample
\* interval last, after the offset and the scale.
C23_PreambleOrder ==
    (IsCreate(op) /\ Allocated(io))
    => LET w   == WriteCmds(io)
           all == << ":data:destination \"" \o HandleName(attrs._arbitrary_waveform_n) \o "\"",
                     ":wfmpre:bit_nr 12", ":wfmpre:bn_fmt rp", ":wfmpre:byt_nr 2",
                     ":wfmpre:byt_or msb", ":wfmpre:encdg bin", ":wfmpre:pt_fmt y",
                     ":wfmpre:yzero 0", ":wfmpre:ymult 4.882812e-04",
                     ":wfmpre:xincr 1.000000e-07" >>
       IN /\ Len(w) <= 10
          /\ w = SubSeq(all, 1, Len(w))
          /\ Returned(result) => Len(w) = 10

\* C23 witness: a live create returned w0001.wfm; its eighth write set the
\* offset and its tenth and last write the sample interval.
C23_Witness ==
    /\ ~simulate /\ IsCreate(op) /\ Returned(result)
    /\ result.value = "w0001.wfm"
    /\ WriteCmds(io)[1] = ":data:destination \"w0001.wfm\""
    /\ WriteCmds(io)[8] = ":wfmpre:yzero 0"
    /\ WriteCmds(io)[10] = ":wfmpre:xincr 1.000000e-07"

\* C24: a successful create performs exactly one block transfer; it is the
\* last Transport call of that create, it completed, and the destination
\* write naming the returned handle and every other preamble write of the
\* call precede it.
C24_OneBlockTransferLast ==
    (IsCreate(op) /\ Returned(result))
    => /\ Len(io) >= 11
       /\ io[Len(io)].call = "write_ieee_block"
       /\ io[Len(io)].ok
       /\ \A k \in 1 .. (Len(io) - 1) : io[k].call # "write_ieee_block"
       /\ \A k \in 1 .. (Len(io) - 1) : io[k].ok
       /\ Len(WriteCmds(SubSeq(io, 1, Len(io) - 1))) = 10
       /\ \E k \in 1 .. (Len(io) - 1) :
             /\ io[k].call = "write"
             /\ io[k].cmd = ":data:destination \"" \o result.value \o "\""

\* C24 witness: a live create of sixteen samples returned after a catalog
\* query, ten writes and, twelfth and last, the block of thirty-two bytes.
C24_Witness ==
    /\ ~simulate /\ IsCreate(op) /\ Returned(result)
    /\ Len(op.value) = 16
    /\ Len(io) = 12
    /\ io[1].call = "ask"
    /\ io[12].call = "write_ieee_block"
    /\ Len(io[12].data) = 32

\* a call of a generated indexed accessor of either engine
IsIndexedAccess(o) ==
    o.name \in { "rigol.set_indexed_property", "rigol.get_indexed_property",
                 "simple.set_indexed_property", "simple.get_indexed_property" }

\* the per-channel lists the generated accessors of the session work on
EngineFields == {"_output_standard_waveform_amplitude", "_output_standard_waveform_dc_offset"}

\* C25 (as stated): a call of a generated indexed accessor, or of the
\* sample-rate setter, whose channel selector does not resolve to an integer
\* in [0, outputCount) builds no command and touches no entry of a
\* per-channel list.
C25_IndexResolvedBeforeUse ==
    [][ ( \/ IsIndexedAccess(op') /\ op'.index \notin Channels
          \/ op'.name = "_set_arbitrary_sample_rate" )
        => ( /\ io' = <<>>
             /\ \A f \in EngineFields :
                   (IsList(attrs[f]) /\ IsList(attrs'[f]))
                   => \A k \in Channels : attrs'[f][k] = attrs[f][k] ) ]_vars

\* C26 (as stated): in a simulated session a get of an attribute on a
\* channel issues no Transport call and returns the value the attribute
\* holds for that channel: the last one stored by a set, or the initial
\* default when none was stored.
C26_SimulatedGetServedFromStore ==
    \A A \in ReadableAttrs :
        (simulate /\ IsGet(op, A))
        => ( /\ io = <<>>
             /\ Returned(result)
             /\ result.value = attrs[FieldOf[A]][op.index] )

\* a call of a generated simple setter / getter of either engine
IsSimpleSet(o) == o.name \in {"rigol.set_simple_property", "simple.set_simple_property"}

IsSimpleGet(o) == o.name \in {"rigol.get_simple_property", "simple.get_simple_property"}

\* C27 (as stated): a set(v) of a non-indexed attribute registered through
\* the generic engine stores v in the attribute's single entry and marks it
\* valid, in a live session after the write '<setTemplate> <format(v)>',
\* unless that write failed; a get returns the value of the single entry, in
\* a live session with an invalid entry after asking the get template.
C27_NonIndexedAttribute ==
    [][ /\ IsSimpleSet(op')
           => \/ ( /\ ~simulate /\ Raised(result', "TransportError")
                   /\ io' = <<WriteCall(":clock:frequency " \o op'.value, TransportFails)>> )
              \/ ( /\ Returned(result')
                   /\ attrs'._arbitrary_sample_rate = Scalar(op'.value)
                   /\ _get_cache_valid(cache_valid', "_arbitrary_sample_rate", -1)
                   /\ io' = IF simulate THEN <<>>
                            ELSE <<WriteCall(":clock:frequency " \o op'.value, [ok |-> TRUE, resp |-> ""])>> )
        /\ IsSimpleGet(op')
           => \/ ( /\ ~simulate /\ result'.kind = "raise"
                   /\ Len(io') = 1 /\ io'[1].cmd = ":clock:frequency?" )
              \/ ( /\ Returned(result')
                   /\ result'.value = attrs'._arbitrary_sample_rate[-1]
                   /\ (simulate \/ _get_cache_valid(cache_valid, "_arbitrary_sample_rate", -1))
                      => io' = <<>>
                   /\ (~simulate /\ ~_get_cache_valid(cache_valid, "_arbitrary_sample_rate", -1))
                      => (Len(io') = 1 /\ io'[1].cmd = ":clock:frequency?") ) ]_vars

\* C28 (as stated): every handle returned by create is 'w', four decimal
\* digits and '.wfm', however many allocations the session made before.
C28_HandleHasFourDigits ==
    (IsCreate(op) /\ Returned(result))
    => LET h == result.value IN
       /\ Len(h) = 9
       /\ SubSeq(h, 1, 1) = "w"
       /\ \A k \in 2 .. 5 : IsDigit(SubSeq(h, k, k))
       /\ SubSeq(h, 6, 9) = ".wfm"

\* C29 (as stated): in a simulated session no operation issues a Transport
\* call; create in particular completes without a write or a block
\* transfer.
C29_SimulatedNoTransport ==
    (simulate /\ IsCreate(op)) => io = <<>>

\* C30: the unused-handle search of a create that allocated a handle made
\* at least one and at most |catalog| + 1 counter increments, whatever the
\* counter held at the call and whatever the catalog lists.
C30_SearchBounded ==
    [][ (IsCreate(op') /\ Allocated(io'))
        => LET increments == attrs'._arbitrary_waveform_n - attrs._arbitrary_waveform_n
           IN /\ increments >= 1
              /\ increments <= Len(attrs'._catalog_names) + 1 ]_vars

\* C30 witness: with the counter at 0 and a catalog of w0001.wfm and
\* w0002.wfm the search made three increments, the most two names allow.
C30_Witness ==
    /\ ~simulate /\ nops = 1
    /\ IsCreate(op) /\ Allocated(io)
    /\ Len(attrs._catalog_names) = 2
    /\ attrs._arbitrary_waveform_n = 3

\* a call of create_channel_waveform
IsCreateChannel(o) == o.name = "_arbitrary_waveform_create_channel_waveform"

\* the places of the block transfers, of the directory queries and of the
\* reference-assignment writes among the Transport calls of a call
BlockPlaces(i) == {k \in 1 .. Len(i) : i[k].call = "write_ieee_block"}

AskPlaces(i) == {k \in 1 .. Len(i) : i[k].call = "ask"}

AssignPlaces(i) == {k \in 1 .. Len(i) : i[k].call = "write" /\ StartsWith(i[k].cmd, ":ch")}

\* C31: create_channel_waveform uploads first and assigns second: the
\* catalog reload of the assignment (the second directory query of the call)
\* and the reference-assignment write come after the completed block
\* transfer of the upload.  When the reloaded directory lists the uploaded
\* name and the assignment write is accepted, the call returns the
\* allocated handle h and the cached reference of channel ch is h, the other
\* channels keeping theirs.  When the call fails after the upload, the
\* allocated name stays consumed and no channel's cached reference changes.
C31_UploadThenAssign ==
    [][ IsCreateChannel(op')
        => LET h        == HandleName(attrs'._arbitrary_waveform_n)
               uploaded == \E b \in BlockPlaces(io') : io'[b].ok
               reloads  == {k \in AskPlaces(io') : \E j \in AskPlaces(io') : j < k}
           IN /\ \A k \in reloads \cup AssignPlaces(io') :
                    \E b \in BlockPlaces(io') : b < k /\ io'[b].ok
              /\ \A k \in AssignPlaces(io') : \E r \in reloads : r < k
              /\ ( /\ op'.index \in Channels
                   /\ uploaded
                   /\ \E r \in reloads : io'[r].ok
                   /\ InList(h, attrs'._catalog_names)
                   /\ \A k \in AssignPlaces(io') : io'[k].ok )
                 => ( /\ Returned(result') /\ result'.value = h
                      /\ AssignPlaces(io') = {Len(io')}
                      /\ io'[Len(io')].cmd = ":ch" \o ToStr(op'.index + 1) \o ":waveform \"" \o h \o "\"" )
              /\ Returned(result')
                 => ( /\ result'.value = h
                      /\ attrs'._arbitrary_waveform_n > attrs._arbitrary_waveform_n
                      /\ attrs'._output_arbitrary_waveform
                           = [attrs._output_arbitrary_waveform EXCEPT ![op'.index] = h] )
              /\ (uploaded /\ result'.kind = "raise")
                 => ( /\ attrs'._arbitrary_waveform_n > attrs._arbitrary_waveform_n
                      /\ attrs'._output_arbitrary_waveform = attrs._output_arbitrary_waveform ) ]_vars

\* C31 witness: the directory held W0001.WFM, the upload took w0002.wfm, the
\* reload listed it, and the call returned it with channel 1 referring to
\* it; block transfer twelfth, reload thirteenth, assignment last.
C31_Witness ==
    /\ ~simulate /\ nops = 1
    /\ IsCreateChannel(op) /\ op.index = 1
    /\ Returned(result) /\ result.value = "w0002.wfm"
    /\ attrs._output_arbitrary_waveform[1] = "w0002.wfm"
    /\ attrs._output_arbitrary_waveform[0] = ""
    /\ Len(io) = 14
    /\ io[12].call = "write_ieee_block"
    /\ io[13].call = "ask"
    /\ io[14].cmd = ":ch2:waveform \"w0002.wfm\""

====
